---- MODULE Spec2Model ----
(***************************************************************************)
(* Interactive Canvas DevTools: the bridge between the DevTools panel      *)
(* (ChromeBridgeService), the content script and the inspected page, the   *)
(* SDK-load poll, the SDK processor's run on the page and the history log. *)
(*                                                                         *)
(* Every asynchronous chrome API call is a suspension point: the part of a *)
(* handler between two awaits is one action.  Requests of one kind are     *)
(* answered in the order they were issued.                                 *)
(***************************************************************************)
EXTENDS Integers, Sequences, FiniteSets, TLC

(***************************************************************************)
(* Bounds of the model.                                                    *)
(***************************************************************************)
MaxSends == 2
MaxLoads == 1
MaxTicks == 2
MaxCalls == 3
MaxFetches == 2
NumFrames == 2

(***************************************************************************)
(* Values.                                                                 *)
(***************************************************************************)
NoTab == 0
LocalTab == 1
RemoteTab == 2
MainFrame == 1
RemoteFrame == 0
Frames == 1..NumFrames
Contexts == Frames \cup {RemoteFrame}

\* A JavaScript value carried by a message or handed to a callback.
Str(m) == [tag |-> "string", s |-> m, elems |-> <<>>]
Arr(es) == [tag |-> "array", s |-> "", elems |-> es]
EmptyObject == [tag |-> "object", s |-> "{}", elems |-> <<>>]
Undefined == [tag |-> "undefined", s |-> "", elems |-> <<>>]

\* JSON texts the developer types in the Send Data tab, and marks.
JsonTexts == {"{\"a\": 1}", "{\"b\": 2}"}
Marks == {"START"}

\* JSON.parse: the object a JSON text denotes (two texts can denote one object).
JSONparse(text) ==
  CASE text = "{\"a\": 1}" -> "object{a:1}"
    [] text = "{\"a\":1}" -> "object{a:1}"
    [] text = "{\"b\": 2}" -> "object{b:2}"
    [] OTHER -> "SyntaxError"

\* JSON.stringify: the compact JSON text of an object.
JSONstringify(object) ==
  CASE object = "object{a:1}" -> "{\"a\":1}"
    [] object = "object{b:2}" -> "{\"b\":2}"
    [] object = "object{command:GLOBAL}" -> "{\"command\":\"GLOBAL\"}"
    [] object = "object{command:PLAY}" -> "{\"command\":\"PLAY\"}"
    [] object = "object{scene:1}" -> "{\"scene\":1}"
    [] object = "object{scene:2}" -> "{\"scene\":2}"
    [] OTHER -> "undefined"

\* Set.add followed by [...set]: a JavaScript Set keeps insertion order.
Range(seq) == {seq[i] : i \in 1..Len(seq)}

\* An array's push in place of Set.add: a value sent twice is kept twice.
SetAdd_push(seq, x) == Append(seq, x)

\* Set.prototype.add
SetAdd(seq, x) == IF x \in Range(seq) THEN seq ELSE Append(seq, x)

RECURSIVE SetAddAll(_, _)
SetAddAll(seq, xs) ==
  IF xs = <<>> THEN seq ELSE SetAddAll(SetAdd(seq, Head(xs)), Tail(xs))

\* Array.prototype.reverse
Reverse(seq) == [i \in 1..Len(seq) |-> seq[Len(seq) + 1 - i]]

IsPrefix(a, b) == Len(a) <= Len(b) /\ SubSeq(b, 1, Len(a)) = a


(***************************************************************************)
(* SDK directories the developer can select in the directory picker.  A    *)
(* directory is given by which parts of the fixed layout exist and by what *)
(* its files contain.  A text the code scans with a regular expression is  *)
(* a sequence of pieces: plain text, <mark name="..."> tags and the parts  *)
(* of a `new Canvas({...})` literal.                                       *)
(***************************************************************************)
Text(s) == [kind |-> "text", s |-> s]
Mark(name) == [kind |-> "mark", s |-> name]
Open == [kind |-> "open", s |-> "new Canvas({"]
Data(payload) == [kind |-> "data", s |-> payload]
Close == [kind |-> "close", s |-> "})"]

\* String.match(markRegexp) and, per match, replace(markRegexp, '$1'): the
\* names of the marks of a text, in text order.
RECURSIVE MarksIn(_)
MarksIn(text) ==
  IF text = <<>> THEN <<>>
  ELSE (IF Head(text).kind = "mark" THEN <<Head(text).s>> ELSE <<>>)
       \o MarksIn(Tail(text))

\* --- YAML documents as jsyaml.load returns them ---------------------------
\* candidate.promptResponse: canvas.data and firstSimple.variants[*].speech.
Candidate(canvas, data, firstSimple, variants) ==
  [canvas |-> canvas, data |-> data, firstSimple |-> firstSimple,
   variants |-> variants]

\* An event: handler.staticPrompt.candidates, or some segment of it missing.
Event(handler, candidates) == [handler |-> handler, candidates |-> candidates]
NoEvent == Event(FALSE, <<>>)

YamlFile(filename, parses, tree) ==
  [filename |-> filename, parses |-> parses, tree |-> tree]

\* sourceTree?.handler?.staticPrompt?.candidates || []
CandidatesOf(event) == IF event.handler THEN event.candidates ELSE <<>>

\* The entries pushed as the parsed objects they are.
StringifyAll_parsed(data) == data

\* forEach(datum => data.push(JSON.stringify(datum)))
StringifyAll(data) == [i \in 1..Len(data) |-> JSONstringify(data[i])]

\* The first loop over the candidates: data.push(JSON.stringify(datum)).
RECURSIVE CandidatesData(_)
CandidatesData(candidates) ==
  IF candidates = <<>> THEN <<>>
  ELSE (IF Head(candidates).canvas THEN StringifyAll(Head(candidates).data)
        ELSE <<>>)
       \o CandidatesData(Tail(candidates))

RECURSIVE VariantsMarks(_)
VariantsMarks(variants) ==
  IF variants = <<>> THEN <<>>
  ELSE MarksIn(Head(variants)) \o VariantsMarks(Tail(variants))

\* The second loop over the candidates: marks.push(mark).
RECURSIVE CandidatesMarks(_)
CandidatesMarks(candidates) ==
  IF candidates = <<>> THEN <<>>
  ELSE (IF Head(candidates).firstSimple
        THEN VariantsMarks(Head(candidates).variants) ELSE <<>>)
       \o CandidatesMarks(Tail(candidates))

RECURSIVE EventsData(_)
EventsData(events) ==
  IF events = <<>> THEN <<>>
  ELSE CandidatesData(CandidatesOf(Head(events))) \o EventsData(Tail(events))

RECURSIVE EventsMarks(_)
EventsMarks(events) ==
  IF events = <<>> THEN <<>>
  ELSE CandidatesMarks(CandidatesOf(Head(events))) \o EventsMarks(Tail(events))

\* What a step returns, or that it threw (nothing is returned then).
\* caught: the error the step's own catch block swallowed.
Returned(data, marks) ==
  [threw |-> "", caught |-> "", data |-> data, marks |-> marks]
Thrown(error) == [threw |-> error, caught |-> "", data |-> <<>>, marks |-> <<>>]
Caught(error) == [threw |-> "", caught |-> error, data |-> <<>>, marks |-> <<>>]
EmptyResult == [data |-> <<>>, marks |-> <<>>]

\* iterateDirectory over the YAML files of custom/global or custom/scenes:
\* jsyaml.load throws on a malformed file and nothing catches it.
RECURSIVE IterateYaml(_, _)
IterateYaml(files, scenes) ==
  IF files = <<>> THEN Returned(<<>>, <<>>)
  ELSE IF ~Head(files).parses THEN Thrown("YAMLException")
  ELSE LET events == IF scenes THEN Head(files).tree.intentEvents
                     ELSE <<Head(files).tree>>
           rest == IterateYaml(Tail(files), scenes)
       IN  IF rest.threw # "" THEN rest
           ELSE Returned(EventsData(events) \o rest.data,
                         EventsMarks(events) \o rest.marks)

\* --- Webhook sources ------------------------------------------------------
SourceFile(filename, ext, text) ==
  [filename |-> filename, ext |-> ext, text |-> text]

\* filename.endsWith('js') || filename.endsWith('ts')
EndsWithJsOrTs(ext) == ext \in {"js", "ts", "mjs"}

\* The first piece of the given kind at or after position from (0: none).
FirstAt(text, kind, from) ==
  IF \E i \in from..Len(text) : text[i].kind = kind
  THEN CHOOSE i \in from..Len(text) :
         /\ text[i].kind = kind
         /\ \A j \in from..(i - 1) : text[j].kind # kind
  ELSE 0

\* sourceText.match(canvasResponseRegex) with each match replaced by its
\* group: what stands between `new Canvas({` and the next `})`, which has to
\* be at least one character.  No match at all is null (here: <<>>).
RECURSIVE CanvasResponses(_, _)
CanvasResponses(text, from) ==
  LET open == FirstAt(text, "open", from)
      close == IF open = 0 THEN 0 ELSE FirstAt(text, "close", open + 2)
  IN  IF open = 0 \/ close = 0 THEN <<>>
      ELSE <<SubSeq(text, open + 1, close - 1)>>
           \o CanvasResponses(text, close + 1)

\* canvasDataRegex.test(response)
HasData(response) == \E i \in 1..Len(response) : response[i].kind = "data"

\* response.replace(canvasDataRegex, '$1'): every `data: {...},` becomes its
\* object text, the rest of the response stays.
RECURSIVE Payload(_)
Payload(response) ==
  IF response = <<>> THEN ""
  ELSE Head(response).s \o Payload(Tail(response))

RECURSIVE Payloads(_)
Payloads(responses) ==
  IF responses = <<>> THEN <<>>
  ELSE (IF HasData(Head(responses)) THEN <<Payload(Head(responses))>> ELSE <<>>)
       \o Payloads(Tail(responses))

\* The callback of processSdkWebhooks for one file: canvasResponses!.length
\* throws a TypeError when match returned null.
WebhookFile(file) ==
  IF ~EndsWithJsOrTs(file.ext) THEN Returned(<<>>, <<>>)
  ELSE IF CanvasResponses(file.text, 1) = <<>> THEN Thrown("TypeError")
  ELSE Returned(Payloads(CanvasResponses(file.text, 1)), MarksIn(file.text))

\* iterateDirectory inside the try block: the catch ends the iteration at
\* the first file that throws and keeps what was pushed so far.
RECURSIVE IterateWebhooks(_)
IterateWebhooks(files) ==
  IF files = <<>> THEN Returned(<<>>, <<>>)
  ELSE LET first == WebhookFile(Head(files)) IN
       IF first.threw # "" THEN Caught(first.threw)
       ELSE LET rest == IterateWebhooks(Tail(files)) IN
            [rest EXCEPT !.data = first.data \o @, !.marks = first.marks \o @]

\* The three accumulation steps, each returning {data, marks}.
processSdkGlobal(dir) ==
  IF ~dir.globalDir THEN Thrown("NotFoundError")
  ELSE IterateYaml(dir.global, FALSE)

\* A scenes step that treats a missing custom/scenes as an empty directory.
processSdkCustom_optional(dir) ==
  IF ~dir.scenesDir THEN Returned(<<>>, <<>>)
  ELSE IterateYaml(dir.scenes, TRUE)

processSdkCustom(dir) ==
  IF ~dir.scenesDir THEN Thrown("NotFoundError")
  ELSE IterateYaml(dir.scenes, TRUE)

\* A webhooks step that reports a placeholder payload when there are no
\* webhooks.
processSdkWebhooks_placeholder(dir) ==
  IF ~dir.webhooksDir \/ ~dir.fulfillmentDir
  THEN [Caught("NotFoundError") EXCEPT !.data = <<"{}">>]
  ELSE IterateWebhooks(dir.hooks)

processSdkWebhooks(dir) ==
  IF ~dir.webhooksDir \/ ~dir.fulfillmentDir THEN Caught("NotFoundError")
  ELSE IterateWebhooks(dir.hooks)

\* --- Settings and the header ----------------------------------------------
Settings(parses, localizedSettings, displayName, projectId, smallLogoImage) ==
  [parses |-> parses, localizedSettings |-> localizedSettings,
   displayName |-> displayName, projectId |-> projectId,
   smallLogoImage |-> smallLogoImage]

RECURSIVE Join(_)
Join(pieces) == IF pieces = <<>> THEN "" ELSE Head(pieces) \o Join(Tail(pieces))

\* String.replace(pattern, ''): the first occurrence of the pattern goes.
RECURSIVE ReplaceFirst(_, _)
ReplaceFirst(pieces, pattern) ==
  IF pieces = <<>> THEN <<>>
  ELSE IF Head(pieces) = pattern THEN Tail(pieces)
  ELSE <<Head(pieces)>> \o ReplaceFirst(Tail(pieces), pattern)

\* getActionLogo with the reference of the settings used as the file name.
getActionLogo_raw(dir, settingsObj) ==
  LET png == Join(settingsObj.smallLogoImage) \o ".png" IN
  IF ~dir.resourcesDir \/ ~dir.imagesDir \/ png \notin dir.images
  THEN [threw |-> "NotFoundError", logoFile |-> ""]
  ELSE [threw |-> "", logoFile |-> "resources/images/" \o png]

\* getActionLogo: resources/images/<smallLogoImage>.png
getActionLogo(dir, settingsObj) ==
  LET smallLogoImage == ReplaceFirst(settingsObj.smallLogoImage, "$resources.images.")
      png == Join(smallLogoImage) \o ".png"
  IN  IF ~dir.resourcesDir \/ ~dir.imagesDir \/ png \notin dir.images
      THEN [threw |-> "NotFoundError", logoFile |-> ""]
      ELSE [threw |-> "", logoFile |-> "resources/images/" \o png]

NoHeader == [set |-> FALSE, title |-> "", projectId |-> "", logoFile |-> ""]

\* A processSdk that goes on with an empty header when the settings are
\* missing.
ResolveHeader_untitled(dir) ==
  IF ~dir.settingsDir \/ ~dir.settingsYaml
  THEN [threw |-> "", header |-> [NoHeader EXCEPT !.set = TRUE]]
  ELSE LET logo == getActionLogo(dir, dir.settings) IN
       IF logo.threw # "" THEN [threw |-> logo.threw, header |-> NoHeader]
       ELSE [threw |-> "",
             header |-> [set |-> TRUE, title |-> dir.settings.displayName,
                         projectId |-> dir.settings.projectId,
                         logoFile |-> logo.logoFile]]

\* processSdk from the picker's answer to the assignment of the header.
ResolveHeader(dir) ==
  IF ~dir.settingsDir \/ ~dir.settingsYaml
  THEN [threw |-> "NotFoundError", header |-> NoHeader]
  ELSE IF ~dir.settings.parses
  THEN [threw |-> "YAMLException", header |-> NoHeader]
  ELSE IF ~dir.settings.localizedSettings
  THEN [threw |-> "TypeError", header |-> NoHeader]
  ELSE LET logo == getActionLogo(dir, dir.settings) IN
       IF logo.threw # "" THEN [threw |-> logo.threw, header |-> NoHeader]
       ELSE [threw |-> "",
             header |-> [set |-> TRUE, title |-> dir.settings.displayName,
                         projectId |-> dir.settings.projectId,
                         logoFile |-> logo.logoFile]]

\* --- The directories ------------------------------------------------------
SampleSettings ==
  Settings(TRUE, TRUE, "Snow Pal sample", "<PROJECT_ID>",
           <<"$resources.images.", "redcircle">>)

SettingsVariants ==
  {"ok", "p1", "barelogo", "nodir", "nofile", "nologo", "noresources"}

SettingsOf(v) ==
  CASE v = "p1" -> Settings(TRUE, TRUE, "T1", "P1", <<"$resources.images.", "logo">>)
    [] v = "barelogo" -> Settings(TRUE, TRUE, "T1", "P1", <<"logo">>)
    [] OTHER -> SampleSettings

ImagesOf(v) ==
  CASE v \in {"p1", "barelogo"} -> {"logo.png"}
    [] v = "nologo" -> {"bluesquare.png"}
    [] OTHER -> {"redcircle.png"}

\* custom/global
GlobalMain ==
  YamlFile("actions.intent.MAIN.yaml", TRUE,
    Event(TRUE, <<Candidate(TRUE, <<"object{command:GLOBAL}">>, TRUE,
                   <<<<Text("Welcome"), Mark("globalyaml"), Text("to Snow Pal"),
                       Mark("globalyaml2")>>>>)>>))
GlobalTwoData ==
  YamlFile("actions.intent.PLAY_GAME.yaml", TRUE,
    Event(TRUE, <<Candidate(TRUE, <<"object{command:GLOBAL}", "object{command:PLAY}">>,
                            FALSE, <<>>),
                  Candidate(FALSE, <<>>, TRUE, <<<<Mark("intro")>>, <<Text("plain")>>>>),
                  Candidate(TRUE, <<"object{command:GLOBAL}">>, FALSE, <<>>)>>))
GlobalNoPath == YamlFile("actions.intent.CANCEL.yaml", TRUE, NoEvent)
GlobalMalformed == YamlFile("broken.yaml", FALSE, NoEvent)

GlobalVariants == {"sample", "two", "nopath", "malformed-first", "malformed-last"}

GlobalOf(v) ==
  CASE v = "sample" -> <<GlobalMain>>
    [] v = "two" -> <<GlobalTwoData, GlobalMain>>
    [] v = "nopath" -> <<GlobalNoPath, GlobalMain>>
    [] v = "malformed-first" -> <<GlobalMalformed, GlobalMain>>
    [] OTHER -> <<GlobalMain, GlobalMalformed>>

\* custom/scenes
NoScene == [intentEvents |-> <<>>]
SceneGame ==
  YamlFile("game.yaml", TRUE,
    [intentEvents |->
       <<Event(TRUE, <<Candidate(FALSE, <<>>, TRUE, <<<<Mark("sceneyaml")>>>>)>>),
         Event(FALSE, <<>>)>>])
SceneData ==
  YamlFile("welcome.yaml", TRUE,
    [intentEvents |->
       <<Event(TRUE, <<Candidate(TRUE, <<"object{scene:1}">>, FALSE, <<>>)>>),
         Event(TRUE, <<Candidate(TRUE, <<"object{scene:2}", "object{scene:1}">>,
                                 TRUE, <<<<Mark("welcome")>>>>)>>)>>])
SceneMalformed == YamlFile("broken.yaml", FALSE, NoScene)

SceneVariants == {"sample", "data", "malformed"}

ScenesOf(v) ==
  CASE v = "sample" -> <<SceneGame>>
    [] v = "data" -> <<SceneData, SceneGame>>
    [] OTHER -> <<SceneMalformed, SceneGame>>

\* webhooks/ActionsOnGoogleFulfillment
HookIndex ==
  SourceFile("index", "js",
    <<Text("app.handle('guess', ...)"), Mark("code"),
      Open, Data("{command: 'WIN_GAME', displayedWord: displayedWord}"), Close,
      Open, Data("{command: 'CORRECT_ANSWER', displayedWord: displayedWord}"), Close,
      Open, Data("{command: 'LOSE_GAME'}"), Close,
      Open, Data("{command: 'INCORRECT_ANSWER'}"), Close>>)
HookPackage == SourceFile("package", "json", <<Text("{\"name\": \"snowpal\"}")>>)
HookNoCanvas ==
  SourceFile("util", "js", <<Text("module.exports = ..."), Mark("util")>>)
HookUnbalanced ==
  SourceFile("draft", "ts",
    <<Mark("draft"), Open, Data("{command: 'DRAFT'}"), Text("// todo")>>)
HookStart ==
  SourceFile("start", "ts",
    <<Open, Text("url: 'https://example.com',"), Close,
      Open, Data("{command: 'START_GAME'}"), Close, Mark("start")>>)

HookVariants ==
  {"sample", "nodir", "nofulfillment", "nocanvas-first", "nocanvas-last",
   "unbalanced", "two", "empty"}

HooksOf(v) ==
  CASE v = "sample" -> <<HookIndex, HookPackage>>
    [] v = "nocanvas-first" -> <<HookNoCanvas, HookIndex>>
    [] v = "nocanvas-last" -> <<HookStart, HookNoCanvas>>
    [] v = "unbalanced" -> <<HookUnbalanced, HookStart>>
    [] v = "two" -> <<HookStart, HookPackage, HookIndex>>
    [] OTHER -> <<>>

CustomVariants == {"ok", "nocustom", "noglobal", "noscenes"}

\* The directory with the given settings, custom layout, global files,
\* scene files and webhooks.
Project(sv, cv, gv, scv, hv) ==
  [name |-> sv \o "/" \o cv \o "/" \o gv \o "/" \o scv \o "/" \o hv,
   settingsDir |-> sv # "nodir",
   settingsYaml |-> sv \notin {"nodir", "nofile"},
   settings |-> SettingsOf(sv),
   resourcesDir |-> sv # "noresources",
   imagesDir |-> sv # "noresources",
   images |-> ImagesOf(sv),
   customDir |-> cv # "nocustom",
   globalDir |-> cv \notin {"nocustom", "noglobal"},
   scenesDir |-> cv \notin {"nocustom", "noscenes"},
   global |-> GlobalOf(gv),
   scenes |-> ScenesOf(scv),
   webhooksDir |-> hv # "nodir",
   fulfillmentDir |-> hv \notin {"nodir", "nofulfillment"},
   hooks |-> HooksOf(hv)]

Projects ==
  {Project(sv, cv, gv, scv, hv) :
     sv \in SettingsVariants, cv \in CustomVariants, gv \in GlobalVariants,
     scv \in SceneVariants, hv \in HookVariants}

\* The sample project of the repository and two incomplete ones.
DirSample ==
  [Project("ok", "ok", "sample", "sample", "sample") EXCEPT !.name = "sample"]
DirNoHooks ==
  [Project("p1", "ok", "two", "data", "nodir") EXCEPT !.name = "nohooks"]
DirNoSettings ==
  [Project("nodir", "ok", "sample", "sample", "nodir") EXCEPT !.name = "nosettings"]

Dirs == {DirSample, DirNoHooks, DirNoSettings}

\* unshift in place of push: a step's results go in front.
PushResult_front(acc, res) ==
  [data |-> res.data \o acc.data, marks |-> res.marks \o acc.marks]

\* platform.interactiveCanvasData.data.push(...data); ...marks.push(...marks)
PushResult(acc, res) ==
  [data |-> acc.data \o res.data, marks |-> acc.marks \o res.marks]

\* jsonRepair on the payload texts of the directories above: the chain of
\* replacements quotes bare keys, turns single quotes into double quotes and
\* leaves a text produced by JSON.stringify as it is.
jsonRepair(jsonlike) ==
  CASE jsonlike = "{command: 'START_GAME'}" -> "{\"command\": \"START_GAME\"}"
    [] OTHER -> jsonlike

RECURSIVE MapRepair(_)
MapRepair(xs) ==
  IF xs = <<>> THEN <<>> ELSE <<jsonRepair(Head(xs))>> \o MapRepair(Tail(xs))

(***************************************************************************)
(* jsonRepair, character by character.  A text is a sequence of one-       *)
(* character strings.                                                      *)
(***************************************************************************)
MaxGap == 2

\* [\w.] and \s over the characters the texts below are written in.
WordChars == {"c", "m", "d", "S", "G", "_", "1", "."}
Whitespace == {" ", "\n"}

\* The greedy match of [\w.]+ from position i: its last index, i - 1 if none.
RECURSIVE RunEnd(_, _)
RunEnd(s, i) ==
  IF i <= Len(s) /\ s[i] \in WordChars THEN RunEnd(s, i + 1) ELSE i - 1

\* .replace(/([\w.]+):/g, '"$1":')
RECURSIVE QuoteKeys(_, _)
QuoteKeys(s, i) ==
  IF i > Len(s) THEN <<>>
  ELSE LET j == RunEnd(s, i) IN
       IF j >= i /\ j < Len(s) /\ s[j + 1] = ":"
       THEN <<"\"">> \o SubSeq(s, i, j) \o <<"\"", ":">> \o QuoteKeys(s, j + 2)
       ELSE <<s[i]>> \o QuoteKeys(s, i + 1)

\* .replace(/'([\w.]+)'/g, '"$1"')
RECURSIVE DoubleQuotes(_, _)
DoubleQuotes(s, i) ==
  IF i > Len(s) THEN <<>>
  ELSE LET j == RunEnd(s, i + 1) IN
       IF s[i] = "'" /\ j >= i + 1 /\ j < Len(s) /\ s[j + 1] = "'"
       THEN <<"\"">> \o SubSeq(s, i + 1, j) \o <<"\"">> \o DoubleQuotes(s, j + 2)
       ELSE <<s[i]>> \o DoubleQuotes(s, i + 1)

\* .replace(/\n/g, '')
DropNewlines(s) == SelectSeq(s, LAMBDA c : c # "\n")

\* .replace(/\s\s/g, '')
RECURSIVE DropSpacePairs(_, _)
DropSpacePairs(s, i) ==
  IF i > Len(s) THEN <<>>
  ELSE IF i < Len(s) /\ s[i] \in Whitespace /\ s[i + 1] \in Whitespace
       THEN DropSpacePairs(s, i + 2)
       ELSE <<s[i]>> \o DropSpacePairs(s, i + 1)

\* .replace(/pattern/g, replacement) for a pattern of literal characters.
RECURSIVE ReplaceAll(_, _, _, _)
ReplaceAll(s, i, pattern, replacement) ==
  IF i > Len(s) THEN <<>>
  ELSE IF i + Len(pattern) - 1 <= Len(s)
          /\ SubSeq(s, i, i + Len(pattern) - 1) = pattern
       THEN replacement \o ReplaceAll(s, i + Len(pattern), pattern, replacement)
       ELSE <<s[i]>> \o ReplaceAll(s, i + 1, pattern, replacement)

\* .trim()
RECURSIVE Trim(_)
Trim(s) ==
  IF s = <<>> THEN s
  ELSE IF Head(s) \in Whitespace THEN Trim(Tail(s))
  ELSE IF s[Len(s)] \in Whitespace THEN Trim(SubSeq(s, 1, Len(s) - 1))
  ELSE s

\* The default export of json-repair.ts: const repaired = jsonlike.replace...
repaired(jsonlike) ==
  LET a == DropSpacePairs(DropNewlines(DoubleQuotes(QuoteKeys(jsonlike, 1), 1)), 1)
      b == ReplaceAll(ReplaceAll(a, 1, <<",", " ", "}">>, <<"}">>), 1,
                      <<",", "}">>, <<"}">>)
      c == ReplaceAll(ReplaceAll(b, 1, <<"{", " ", "\"">>, <<"{", "\"">>), 1,
                      <<"\"", " ", "}">>, <<"\"", "}">>)
  IN  Trim(c)

\* The JSON-like texts of a flat object with one pair: the key bare, single-
\* or double-quoted, the value single- or double-quoted, and white space
\* between the tokens.
KeyToken == <<"c", "m", "d">>
ValueToken == <<"S", "_", "G">>
Quoted(q, token) == IF q = "" THEN token ELSE <<q>> \o token \o <<q>>
Spaces(n) == [i \in 1..n |-> " "]
Gaps ==
  {Spaces(n) : n \in 0..MaxGap} \cup {<<"\n">> \o Spaces(n) : n \in 0..MaxGap}
\* Between a key and its colon: nothing, doubled spaces or a newline.
KeyGaps == Gaps \ {Spaces(1)}
Pair(kq, g2, g3, vq) ==
  Quoted(kq, KeyToken) \o g2 \o <<":">> \o g3 \o Quoted(vq, ValueToken)
JsonLike(g1, pair, g4, comma, g5) ==
  <<"{">> \o g1 \o pair \o g4 \o (IF comma THEN <<",">> \o g5 ELSE <<>>)
    \o <<"}">>
Pairs ==
  {Pair(kq, g2, g3, vq) :
     kq \in {"", "'", "\""}, g2 \in KeyGaps, g3 \in Gaps, vq \in {"'", "\""}}
JsonLikeTexts ==
  {JsonLike(g1, pair, <<>>, comma, g5) :
     g1 \in Gaps, pair \in Pairs, comma \in BOOLEAN, g5 \in Gaps}
    \cup {JsonLike(<<>>, pair, g4, FALSE, <<>>) : pair \in Pairs, g4 \in Gaps}

(***************************************************************************)
(* State.                                                                  *)
(***************************************************************************)
VARIABLES
  initpc,            \* position of ChromeBridgeService.init
  isRemoteTarget,    \* ChromeBridgeService.isRemoteTarget
  currentWindow,     \* ChromeBridgeService.currentWindow (NoTab: undefined)
  payloadsSet,       \* ChromeBridgeService.payloadsSet, in insertion order
  marksSet,          \* ChromeBridgeService.marksSet, in insertion order
  payloadSubject,    \* the array last emitted on payloadSubject
  marksSubject,      \* the array last emitted on marksSubject
  historySubject,    \* the array last emitted on historySubject
  sortedHistory,     \* TabHistoryComponent.sortedHistory
  fetches,           \* fetchHistory calls made
  errors,            \* the rejections the callers of the bridge received
  sends,             \* the transport calls of the bridge, in issue order
  slot,              \* chrome.storage.local: data, requestId, type
  loads,             \* the loadSdk calls, in issue order
  hasInteractiveCanvas, \* window.interactiveCanvas !== undefined in the page
  reads,             \* what the last read of a wrapped property did, per frame
  delivered,         \* what reached each page context, in order
  unsupportedApiBehavior, \* webpage-script's mode, per frame
  runs,              \* the processSdk runs of the page, in start order
  interactiveCanvasData,   \* page window.interactiveCanvasData
  interactiveCanvasReady,  \* page window.interactiveCanvasReady
  interactiveCanvasHeader, \* page window.interactiveCanvasHeader
  webhookHistory,    \* the history log kept by webpage-script
  calls,             \* the outbound calls the page made, in call order
  csReady,           \* content-script window.interactiveCanvasReady
  csData,            \* content-script window.interactiveCanvasData
  csHistory,         \* content-script window.interactiveCanvasHistory
  updateInput,       \* the text handed to jsonRepair, as characters
  json,              \* the text jsonRepair returned for it
  tabIsRemoteTarget, \* TabPreferencesComponent.isRemoteTarget
  styles,            \* the style sheets inserted into the tab
  debugCalls         \* the interactiveCanvasDebug calls made in the console

bridgeVars == <<initpc, isRemoteTarget, currentWindow, payloadsSet, marksSet,
                payloadSubject, marksSubject, historySubject, sortedHistory,
                fetches, errors, sends, slot, loads>>
pageVars == <<hasInteractiveCanvas, reads, delivered, unsupportedApiBehavior, runs,
              interactiveCanvasData, interactiveCanvasReady,
              interactiveCanvasHeader, webhookHistory, calls>>
csVars == <<csReady, csData, csHistory>>
panelVars == <<updateInput, json, tabIsRemoteTarget, styles, debugCalls>>
vars == <<bridgeVars, pageVars, csVars, panelVars>>

\* The field initialiser of TabPreferencesComponent: isRemoteTarget = false.
NoCopy == [taken |-> FALSE, value |-> FALSE]

NoMessage == [type |-> "none", requestId |-> 0, data |-> Undefined]
NoHistory == [defined |-> FALSE, entries |-> <<>>]

Init ==
  /\ initpc = "query1"
  /\ isRemoteTarget = FALSE
  /\ currentWindow = NoTab
  /\ payloadsSet = <<>>
  /\ marksSet = <<>>
  /\ payloadSubject = <<>>
  /\ marksSubject = <<>>
  /\ historySubject = NoHistory
  /\ sortedHistory = <<>>
  /\ fetches = 0
  /\ errors = {}
  /\ sends = <<>>
  /\ slot = NoMessage
  /\ loads = <<>>
  /\ hasInteractiveCanvas \in BOOLEAN
  /\ reads = [f \in Frames |-> "none"]
  /\ delivered = [f \in Contexts |-> <<>>]
  /\ unsupportedApiBehavior = [f \in Frames |-> "off"]
  /\ runs = <<>>
  /\ interactiveCanvasData = EmptyResult
  /\ interactiveCanvasReady = FALSE
  /\ interactiveCanvasHeader = NoHeader
  /\ webhookHistory = <<>>
  /\ calls = <<>>
  /\ csReady = FALSE
  /\ csData = EmptyResult
  /\ csHistory = NoHistory
  /\ updateInput = <<>>
  /\ json = <<>>
  /\ tabIsRemoteTarget = NoCopy
  /\ styles = 0
  /\ debugCalls = <<>>


(***************************************************************************)
(* The two transports of ChromeBridgeService.                              *)
(***************************************************************************)
PrefValues == {"undefined", "warn"}
UserOrigins == {"update", "tts"}
UserSendCount == Cardinality({i \in 1..Len(sends) : sends[i].origin \in UserOrigins})

\* execOnLocalTab / execOnRemoteTab with the window check left out.
CanAccessWindow_always == TRUE

\* execOnLocalTab / execOnRemoteTab: 'Cannot access window' without a tab.
CanAccessWindow == currentWindow # NoTab

\* An error thrown inside a bridge operation rejects the promise its caller
\* holds.
CannotAccessWindow == "Cannot access window"
UnavailableOnRemote == "Function unavailable on remote targets"
Rejection(op, error) == [op |-> op, error |-> error]

\* The bridge operation that issued a transport call.
OpOf(origin) ==
  CASE origin = "update" -> "sendOnUpdate"
    [] origin = "tts" -> "sendOnTtsMark"
    [] origin = "load" -> "loadSdk"
    [] origin = "header" -> "injectHeaderDom"
    [] origin = "has" -> "hasInteractiveCanvas"
    [] origin = "pref" -> "updateUnsupportedApiBehavior"
    [] OTHER -> "init"

\* broadcastMessage up to its first await (preferences.getFlagDebugClient).
broadcastMessage(type, data, origin, arg) ==
  [type |-> type, data |-> data, transport |-> "local", pc |-> "prefs",
   origin |-> origin, arg |-> arg, pending |-> {}]

\* execOnRemoteTab up to its first await (the eval that finds the frame URL).
execOnRemoteTab(callback, data, origin, arg) ==
  [type |-> callback, data |-> data, transport |-> "remote",
   pc |-> IF CanAccessWindow THEN "frameurl" ELSE "failed",
   origin |-> origin, arg |-> arg, pending |-> {}]

\* Reading a property of the event data: a missing property is undefined.
Field(eventData, key) ==
  IF key \in DOMAIN eventData THEN eventData[key] ELSE Undefined

\* The page context of a frame has the host API: only the inspected app has.
HostApi(f) == f = MainFrame /\ hasInteractiveCanvas

\* The effect the 'message' listener of webpage-script has for an event.
ListenerCallback(f, eventData) ==
  CASE eventData.type = "payload" ->
         IF HostApi(f) THEN "onUpdate" ELSE "TypeError"
    [] eventData.type = "TtsEndpointEvent" ->
         IF HostApi(f) THEN "onTtsMark" ELSE "TypeError"
    [] eventData.type = "Ext-ShowHeader" -> "showHeader"
    [] eventData.type = "Ext-ProcessSdk" ->
         IF HostApi(f) THEN "processSdk" ELSE "TypeError"
    [] eventData.type = "Ext-UnsupportedApiBehavior" -> "setBehavior"
    [] OTHER -> "none"

TtsMarkField == "name"

ListenerArgument(f, eventData) ==
  CASE ListenerCallback(f, eventData) = "onUpdate" -> Field(eventData, "data")
    [] ListenerCallback(f, eventData) = "onTtsMark" -> Field(eventData, TtsMarkField)
    [] ListenerCallback(f, eventData) = "setBehavior" -> Field(eventData, "data")
    [] OTHER -> Undefined

\* processSdk up to its first await (showDirectoryPicker).
NewRun(s, requestId) ==
  [script |-> s, by |-> requestId, pc |-> "picker", dir |-> "", events |-> 0,
   header |-> FALSE, error |-> "", caught |-> ""]

\* document.dispatchEvent(new MessageEvent('message', ...)) in frame f, by the
\* script that send s injected, and the listener's synchronous effect.
DispatchMessage(s, f, eventData) ==
  LET cb == ListenerCallback(f, eventData) IN
  /\ delivered' = [delivered EXCEPT ![f] = Append(@,
       [by |-> s, requestId |-> eventData.requestId,
        type |-> eventData.type, data |-> eventData.data,
        cb |-> cb, arg |-> ListenerArgument(f, eventData)])]
  /\ unsupportedApiBehavior' =
       IF cb = "setBehavior"
       THEN [unsupportedApiBehavior EXCEPT ![f] = eventData.data.s]
       ELSE unsupportedApiBehavior
  /\ IF cb = "processSdk"
     THEN /\ runs' = Append(runs, NewRun(s, eventData.requestId))
          /\ interactiveCanvasData' = EmptyResult
          /\ interactiveCanvasReady' = FALSE
     ELSE UNCHANGED <<runs, interactiveCanvasData, interactiveCanvasReady>>

\* The injection with allFrames left out: the top frame only.
InjectionTarget_top == {MainFrame}

\* execOnLocalTab's target: {tabId, allFrames: true}.
InjectionTarget == Frames

\* broadcastMessage after getFlagDebugClient: chrome.storage.local.set, then
\* execOnLocalTab, which injects the script into every frame of the tab.
BroadcastMessageStore(s) ==
  /\ s \in 1..Len(sends)
  /\ sends[s].transport = "local" /\ sends[s].pc = "prefs"
  /\ \A t \in 1..(s - 1) : ~(sends[t].transport = "local" /\ sends[t].pc = "prefs")
  /\ slot' = [type |-> sends[s].type, requestId |-> s, data |-> sends[s].data]
  /\ sends' = [sends EXCEPT ![s].pc = IF CanAccessWindow THEN "exec" ELSE "failed",
                            ![s].pending = IF CanAccessWindow THEN InjectionTarget ELSE {}]
  /\ errors' = IF CanAccessWindow THEN errors
               ELSE errors \cup {Rejection(OpOf(sends[s].origin), CannotAccessWindow)}
  /\ UNCHANGED <<panelVars, initpc, isRemoteTarget, currentWindow, payloadsSet, marksSet,
                 payloadSubject, marksSubject, historySubject, sortedHistory,
                 fetches, loads, pageVars, csVars>>

\* The injected function in frame f: chrome.storage.local.get and, in its
\* callback, the dispatch of whatever the slot holds at that moment.
InjectedScript(s, f) ==
  /\ s \in 1..Len(sends)
  /\ sends[s].pc = "exec" /\ f \in sends[s].pending
  /\ \A t \in 1..(s - 1) : f \notin sends[t].pending
  /\ DispatchMessage(s, f, slot)
  /\ sends' = [sends EXCEPT ![s].pending = @ \ {f},
                            ![s].pc = IF sends[s].pending = {f} THEN "done" ELSE @]
  /\ UNCHANGED <<panelVars, initpc, isRemoteTarget, currentWindow, payloadsSet, marksSet,
                 payloadSubject, marksSubject, historySubject, sortedHistory,
                 fetches, errors, slot, loads, hasInteractiveCanvas, reads,
                 interactiveCanvasHeader, webhookHistory, calls, csVars>>

\* execOnRemoteTab: the first eval returned the URL of the first iframe.
RemoteFrameUrl(s) ==
  /\ s \in 1..Len(sends)
  /\ sends[s].transport = "remote" /\ sends[s].pc = "frameurl"
  /\ sends' = [sends EXCEPT ![s].pc = "eval"]
  /\ UNCHANGED <<panelVars, initpc, isRemoteTarget, currentWindow, payloadsSet, marksSet,
                 payloadSubject, marksSubject, historySubject, sortedHistory,
                 fetches, errors, slot, loads, pageVars, csVars>>

\* execOnRemoteTab: the code string is evaluated in that frame of the device.
RemoteEval(s) ==
  /\ s \in 1..Len(sends)
  /\ sends[s].transport = "remote" /\ sends[s].pc = "eval"
  /\ sends' = [sends EXCEPT ![s].pc = "done"]
  /\ delivered' = [delivered EXCEPT ![RemoteFrame] = Append(@,
       [by |-> s, requestId |-> s, type |-> "eval",
        data |-> sends[s].data, cb |-> sends[s].type, arg |-> sends[s].data])]
  /\ UNCHANGED <<panelVars, initpc, isRemoteTarget, currentWindow, payloadsSet, marksSet,
                 payloadSubject, marksSubject, historySubject, sortedHistory,
                 fetches, errors, slot, loads, hasInteractiveCanvas, reads,
                 unsupportedApiBehavior, runs, interactiveCanvasData,
                 interactiveCanvasReady, interactiveCanvasHeader,
                 webhookHistory, calls, csVars>>

(***************************************************************************)
(* ChromeBridgeService.init                                                *)
(***************************************************************************)
\* chrome.tabs.query({active, currentWindow}) returned.
InitQuery1 ==
  /\ initpc = "query1"
  /\ \E found \in BOOLEAN :
       IF found
       THEN currentWindow' = LocalTab /\ initpc' = "prefs"
       ELSE currentWindow' = currentWindow /\ initpc' = "query2"
  /\ UNCHANGED <<panelVars, isRemoteTarget, payloadsSet, marksSet, payloadSubject,
                 marksSubject, historySubject, sortedHistory, fetches, errors, sends,
                 slot, loads, pageVars, csVars>>

\* chrome.tabs.query({active}) returned: the session is remote from now on,
\* and the history override is sent to the device.
InitQuery2 ==
  /\ initpc = "query2"
  /\ \E tab \in {NoTab, RemoteTab} :
       /\ currentWindow' = tab
       /\ isRemoteTarget' = TRUE
       /\ sends' = Append(sends,
            [execOnRemoteTab("inject", Undefined, "inject", "") EXCEPT
               !.pc = IF tab = NoTab THEN "failed" ELSE "frameurl"])
       /\ initpc' = IF tab = NoTab THEN "failed" ELSE "inject"
       /\ errors' = IF tab = NoTab
                    THEN errors \cup {Rejection("init", CannotAccessWindow)}
                    ELSE errors
  /\ UNCHANGED <<panelVars, payloadsSet, marksSet, payloadSubject, marksSubject,
                 historySubject, sortedHistory, fetches, slot, loads,
                 pageVars, csVars>>

InitSend == CHOOSE i \in 1..Len(sends) : sends[i].origin \in {"inject"}
SyncSend == CHOOSE i \in 1..Len(sends) : sends[i].origin \in {"sync"}

\* The injection was evaluated on the device.
InitInjected ==
  /\ initpc = "inject"
  /\ sends[InitSend].pc = "done"
  /\ initpc' = "prefs"
  /\ UNCHANGED <<panelVars, isRemoteTarget, currentWindow, payloadsSet, marksSet,
                 payloadSubject, marksSubject, historySubject, sortedHistory,
                 fetches, errors, sends, slot, loads, pageVars, csVars>>

\* updateUnsupportedApiBehavior without the default of its parameter.
updateUnsupportedApiBehavior_raw(value, origin) ==
  broadcastMessage("Ext-UnsupportedApiBehavior", Str(value), origin, value)

\* updateUnsupportedApiBehavior(newValue = 'off')
updateUnsupportedApiBehavior(value, origin) ==
  broadcastMessage("Ext-UnsupportedApiBehavior",
                   Str(IF value = "undefined" THEN "off" ELSE value), origin, value)

\* preferences.getUnsupportedApiBehavior() returned the stored preference.
InitSyncPrefs ==
  /\ initpc = "prefs"
  /\ \E value \in PrefValues :
       sends' = Append(sends, updateUnsupportedApiBehavior(value, "sync"))
  /\ initpc' = "sync"
  /\ UNCHANGED <<panelVars, isRemoteTarget, currentWindow, payloadsSet, marksSet,
                 payloadSubject, marksSubject, historySubject, sortedHistory,
                 fetches, errors, slot, loads, pageVars, csVars>>

\* init deciding the transport again once the sync settled.
InitFinish_reselect ==
  /\ initpc = "sync"
  /\ sends[SyncSend].pc \in {"exec", "done", "failed"}
  /\ initpc' = IF sends[SyncSend].pc = "failed" THEN "failed" ELSE "done"
  /\ isRemoteTarget' = (sends[SyncSend].pc = "failed")
  /\ UNCHANGED <<panelVars, currentWindow, payloadsSet, marksSet,
                 payloadSubject, marksSubject, historySubject, sortedHistory,
                 fetches, errors, sends, slot, loads, pageVars, csVars>>

\* The awaited broadcastMessage of the sync settled.
InitFinish ==
  /\ initpc = "sync"
  /\ sends[SyncSend].pc \in {"exec", "done", "failed"}
  /\ initpc' = IF sends[SyncSend].pc = "failed" THEN "failed" ELSE "done"
  /\ UNCHANGED <<panelVars, isRemoteTarget, currentWindow, payloadsSet, marksSet,
                 payloadSubject, marksSubject, historySubject, sortedHistory,
                 fetches, errors, sends, slot, loads, pageVars, csVars>>

(***************************************************************************)
(* The commands of the Send Data and TTS Mark tabs.                        *)
(***************************************************************************)
sendOnUpdate(object) ==
  /\ UserSendCount < MaxSends
  /\ payloadsSet' = SetAdd(payloadsSet, object)
  /\ payloadSubject' = payloadsSet'
  /\ sends' = Append(sends,
       IF isRemoteTarget
       THEN execOnRemoteTab("onUpdate", Arr(<<JSONparse(object)>>), "update", object)
       ELSE broadcastMessage("payload", Arr(<<JSONparse(object)>>), "update", object))
  /\ errors' = IF isRemoteTarget /\ ~CanAccessWindow
               THEN errors \cup {Rejection("sendOnUpdate", CannotAccessWindow)}
               ELSE errors
  /\ UNCHANGED <<panelVars, initpc, isRemoteTarget, currentWindow, marksSet, marksSubject,
                 historySubject, sortedHistory, fetches, slot, loads,
                 pageVars, csVars>>

\* On a remote target the mark is spliced into the code unquoted, so the
\* device evaluates it as an identifier.
sendOnTtsMark(mark) ==
  /\ UserSendCount < MaxSends
  /\ marksSet' = SetAdd(marksSet, mark)
  /\ marksSubject' = marksSet'
  /\ sends' = Append(sends,
       IF isRemoteTarget
       THEN execOnRemoteTab("ReferenceError", Undefined, "tts", mark)
       ELSE broadcastMessage("TtsEndpointEvent", Str(mark), "tts", mark))
  /\ errors' = IF isRemoteTarget /\ ~CanAccessWindow
               THEN errors \cup {Rejection("sendOnTtsMark", CannotAccessWindow)}
               ELSE errors
  /\ UNCHANGED <<panelVars, initpc, isRemoteTarget, currentWindow, payloadsSet,
                 payloadSubject, historySubject, sortedHistory, fetches, slot,
                 loads, pageVars, csVars>>


(***************************************************************************)
(* ChromeBridgeService.loadSdk and its poll.                               *)
(***************************************************************************)
NewLoad(pc, send) ==
  [pc |-> pc, send |-> send, interval |-> FALSE, fired |-> 0, inCheck |-> 0,
   inFetch |-> 0, fetched |-> 0, published |-> 0]

\* loadSdk up to the first await of its broadcastMessage.
loadSdk(limit) ==
  /\ Len(loads) < limit
  /\ IF isRemoteTarget
     THEN /\ loads' = Append(loads, NewLoad("failed", 0))
          /\ sends' = sends
          /\ errors' = errors \cup {Rejection("loadSdk", UnavailableOnRemote)}
     ELSE /\ loads' = Append(loads, NewLoad("sending", Len(sends) + 1))
          /\ sends' = Append(sends,
               broadcastMessage("Ext-ProcessSdk", EmptyObject, "load", ""))
          /\ errors' = errors
  /\ UNCHANGED <<panelVars, initpc, isRemoteTarget, currentWindow, payloadsSet, marksSet,
                 payloadSubject, marksSubject, historySubject, sortedHistory,
                 fetches, slot, pageVars, csVars>>

\* The awaited broadcastMessage settled: setInterval(..., 500).
LoadSdkSetInterval(l) ==
  /\ l \in 1..Len(loads)
  /\ loads[l].pc = "sending"
  /\ sends[loads[l].send].pc \in {"exec", "done", "failed"}
  /\ loads' = IF sends[loads[l].send].pc = "failed"
              THEN [loads EXCEPT ![l].pc = "failed"]
              ELSE [loads EXCEPT ![l].pc = "polling", ![l].interval = TRUE]
  /\ UNCHANGED <<panelVars, initpc, isRemoteTarget, currentWindow, payloadsSet, marksSet,
                 payloadSubject, marksSubject, historySubject, sortedHistory,
                 fetches, errors, sends, slot, pageVars, csVars>>

RECURSIVE SumFired(_)
SumFired(n) == IF n = 0 THEN 0 ELSE loads[n].fired + SumFired(n - 1)
TicksFired == SumFired(Len(loads))

\* The timer fires: the callback asks the content script for the ready flag.
PollTick(l) ==
  /\ l \in 1..Len(loads)
  /\ loads[l].interval
  /\ TicksFired < MaxTicks
  /\ loads' = [loads EXCEPT ![l].fired = @ + 1, ![l].inCheck = @ + 1]
  /\ UNCHANGED <<panelVars, initpc, isRemoteTarget, currentWindow, payloadsSet, marksSet,
                 payloadSubject, marksSubject, historySubject, sortedHistory,
                 fetches, errors, sends, slot, pageVars, csVars>>

\* The completion branch without clearInterval.
ClearInterval_kept(load) == load

\* clearInterval(interval)
ClearInterval(load) == [load EXCEPT !.interval = FALSE]

\* A tick's check returned window.interactiveCanvasReady of the content
\* script; if it is set the tick clears the timer and asks for the data.
PollCheck(l) ==
  /\ l \in 1..Len(loads)
  /\ loads[l].inCheck > 0
  /\ loads' = IF csReady
              THEN [loads EXCEPT ![l] = [ClearInterval(@) EXCEPT
                                           !.inCheck = @ - 1, !.inFetch = @ + 1]]
              ELSE [loads EXCEPT ![l].inCheck = @ - 1]
  /\ UNCHANGED <<panelVars, initpc, isRemoteTarget, currentWindow, payloadsSet, marksSet,
                 payloadSubject, marksSubject, historySubject, sortedHistory,
                 fetches, errors, sends, slot, pageVars, csVars>>

\* A tick's fetch returned window.interactiveCanvasData of the content
\* script: the payloads and marks are added and published.
PollFetch(l) ==
  /\ l \in 1..Len(loads)
  /\ loads[l].inFetch > 0
  /\ loads' = [loads EXCEPT ![l].inFetch = @ - 1, ![l].fetched = @ + 1,
                            ![l].published = @ + 1]
  /\ payloadsSet' = SetAddAll(payloadsSet, MapRepair(csData.data))
  /\ payloadSubject' = payloadsSet'
  /\ marksSet' = SetAddAll(marksSet, csData.marks)
  /\ marksSubject' = marksSet'
  /\ UNCHANGED <<panelVars, initpc, isRemoteTarget, currentWindow, historySubject,
                 sortedHistory, fetches, errors, sends, slot, pageVars, csVars>>

(***************************************************************************)
(* processSdk on the page.  A run is started by the 'message' listener     *)
(* (DispatchMessage); each action below is the part between two awaits.    *)
(***************************************************************************)
DirNamed(name) ==
  IF \E d \in Dirs : d.name = name
  THEN CHOOSE d \in Dirs : d.name = name
  ELSE CHOOSE d \in Projects : d.name = name

\* The picker returned a directory; settings and logo are resolved and the
\* header is written.
RunHeader(r, d) ==
  /\ r \in 1..Len(runs)
  /\ runs[r].pc = "picker"
  /\ LET resolved == ResolveHeader(d) IN
     IF resolved.threw = ""
     THEN /\ runs' = [runs EXCEPT ![r].pc = "global", ![r].dir = d.name,
                                  ![r].header = TRUE]
          /\ interactiveCanvasHeader' = resolved.header
     ELSE /\ runs' = [runs EXCEPT ![r].pc = "failed", ![r].dir = d.name,
                                  ![r].error = resolved.threw]
          /\ UNCHANGED interactiveCanvasHeader
  /\ UNCHANGED <<panelVars, bridgeVars, hasInteractiveCanvas, reads, delivered,
                 unsupportedApiBehavior, interactiveCanvasData,
                 interactiveCanvasReady, webhookHistory, calls, csVars>>

\* The custom directory is opened and processSdkGlobal returned: its results
\* are appended.
RunGlobal(r) ==
  /\ r \in 1..Len(runs)
  /\ runs[r].pc = "global"
  /\ LET dir == DirNamed(runs[r].dir)
         result == IF dir.customDir THEN processSdkGlobal(dir)
                   ELSE Thrown("NotFoundError")
     IN  IF result.threw = ""
         THEN /\ runs' = [runs EXCEPT ![r].pc = "scenes"]
              /\ interactiveCanvasData' = PushResult(interactiveCanvasData, result)
         ELSE /\ runs' = [runs EXCEPT ![r].pc = "failed", ![r].error = result.threw]
              /\ UNCHANGED interactiveCanvasData
  /\ UNCHANGED <<panelVars, bridgeVars, hasInteractiveCanvas, reads, delivered,
                 unsupportedApiBehavior, interactiveCanvasReady,
                 interactiveCanvasHeader, webhookHistory, calls, csVars>>

\* A run that raises the ready flag and dispatches the event already after
\* the scenes step.
RunScenes_ready(r) ==
  /\ r \in 1..Len(runs)
  /\ runs[r].pc = "scenes"
  /\ LET result == processSdkCustom(DirNamed(runs[r].dir)) IN
     IF result.threw = ""
     THEN /\ runs' = [runs EXCEPT ![r].pc = "webhooks", ![r].events = @ + 1]
          /\ interactiveCanvasData' = PushResult(interactiveCanvasData, result)
          /\ interactiveCanvasReady' = TRUE
          /\ csData' = interactiveCanvasData'
          /\ csReady' = interactiveCanvasReady'
     ELSE /\ runs' = [runs EXCEPT ![r].pc = "failed", ![r].error = result.threw]
          /\ UNCHANGED <<interactiveCanvasData, interactiveCanvasReady,
                         csData, csReady>>
  /\ UNCHANGED <<panelVars, bridgeVars, hasInteractiveCanvas, reads, delivered,
                 unsupportedApiBehavior, interactiveCanvasHeader,
                 webhookHistory, calls, csHistory>>

\* processSdkCustom returned: its results are appended.
RunScenes(r) ==
  /\ r \in 1..Len(runs)
  /\ runs[r].pc = "scenes"
  /\ LET result == processSdkCustom(DirNamed(runs[r].dir)) IN
     IF result.threw = ""
     THEN /\ runs' = [runs EXCEPT ![r].pc = "webhooks"]
          /\ interactiveCanvasData' = PushResult(interactiveCanvasData, result)
     ELSE /\ runs' = [runs EXCEPT ![r].pc = "failed", ![r].error = result.threw]
          /\ UNCHANGED interactiveCanvasData
  /\ UNCHANGED <<panelVars, bridgeVars, hasInteractiveCanvas, reads, delivered,
                 unsupportedApiBehavior, interactiveCanvasReady,
                 interactiveCanvasHeader, webhookHistory, calls, csVars>>

\* processSdkWebhooks returned: its results are appended, the ready flag is
\* set and InteractiveCanvas_ProcessSdk is dispatched; the content script's
\* listener copies data and ready into its own window.
RunWebhooks(r) ==
  /\ r \in 1..Len(runs)
  /\ runs[r].pc = "webhooks"
  /\ runs' = [runs EXCEPT ![r].pc = "done", ![r].events = @ + 1,
                          ![r].caught = processSdkWebhooks(DirNamed(runs[r].dir)).caught]
  /\ interactiveCanvasData' =
       PushResult(interactiveCanvasData, processSdkWebhooks(DirNamed(runs[r].dir)))
  /\ interactiveCanvasReady' = TRUE
  /\ csData' = interactiveCanvasData'
  /\ csReady' = interactiveCanvasReady'
  /\ UNCHANGED <<panelVars, bridgeVars, hasInteractiveCanvas, reads, delivered,
                 unsupportedApiBehavior, interactiveCanvasHeader,
                 webhookHistory, calls, csHistory>>


(***************************************************************************)
(* The history log: the overrides webpage-script installs on the host API, *)
(* the content script's copy, fetchHistory and the History tab.            *)
(***************************************************************************)
Texts == {"hello", "bye"}
States == {"object{a:1}", "object{b:2}"}

\* Date.now(): the clock advances with every outbound call.
DateNow == Len(calls) + 1

TextEntry(text) == [label |-> text, timestamp |-> DateNow, type |-> "text"]
\* A state entry pushed with the type of a text query.
StateEntry_text(state) ==
  [label |-> JSONstringify(state), timestamp |-> DateNow, type |-> "text"]

StateEntry(state) ==
  [label |-> JSONstringify(state), timestamp |-> DateNow, type |-> "state"]

\* unshift in place of push.
HistoryPush_front(log, entry) == <<entry>> \o log

\* webhookHistory.push(entry)
HistoryPush(log, entry) == Append(log, entry)

\* The page calls interactiveCanvas.sendTextQuery(text) (overridden).
sendTextQuery(text) ==
  /\ HostApi(MainFrame)
  /\ Len(calls) < MaxCalls
  /\ calls' = Append(calls, [api |-> "sendTextQuery", arg |-> text])
  /\ webhookHistory' = HistoryPush(webhookHistory, TextEntry(text))
  /\ csHistory' = [defined |-> TRUE, entries |-> webhookHistory']
  /\ UNCHANGED <<panelVars, bridgeVars, hasInteractiveCanvas, reads, delivered,
                 unsupportedApiBehavior, runs, interactiveCanvasData,
                 interactiveCanvasReady, interactiveCanvasHeader, csReady, csData>>

\* The page calls interactiveCanvas.setCanvasState(state) (overridden).
setCanvasState(state) ==
  /\ HostApi(MainFrame)
  /\ Len(calls) < MaxCalls
  /\ calls' = Append(calls, [api |-> "setCanvasState", arg |-> state])
  /\ webhookHistory' = HistoryPush(webhookHistory, StateEntry(state))
  /\ csHistory' = [defined |-> TRUE, entries |-> webhookHistory']
  /\ UNCHANGED <<panelVars, bridgeVars, hasInteractiveCanvas, reads, delivered,
                 unsupportedApiBehavior, runs, interactiveCanvasData,
                 interactiveCanvasReady, interactiveCanvasHeader, csReady, csData>>

\* window.interactiveCanvasHistory of the device: the array init injected.
RemoteHistory ==
  IF \E i \in 1..Len(sends) : sends[i].origin = "inject" /\ sends[i].pc = "done"
  THEN [defined |-> TRUE, entries |-> <<>>]
  ELSE NoHistory

\* The subscriber of TabHistoryComponent.ngOnInit: history.reverse() reverses
\* the emitted array in place and returns it.
DisplayOrder(history) == Reverse(history)

\* fetchHistory: a copy of the history is read over the transport and emitted
\* on historySubject; the History tab's subscriber runs inside the emission.
fetchHistory ==
  /\ fetches < MaxFetches
  /\ fetches' = fetches + 1
  /\ errors' = IF CanAccessWindow THEN errors
               ELSE errors \cup {Rejection("fetchHistory", CannotAccessWindow)}
  /\ IF ~CanAccessWindow
     THEN UNCHANGED <<historySubject, sortedHistory>>
     ELSE LET history == IF isRemoteTarget THEN RemoteHistory ELSE csHistory IN
          IF history.defined
          THEN /\ historySubject' =
                    [defined |-> TRUE, entries |-> DisplayOrder(history.entries)]
               /\ sortedHistory' = DisplayOrder(history.entries)
          ELSE /\ historySubject' = history
               /\ UNCHANGED sortedHistory
  /\ UNCHANGED <<panelVars, initpc, isRemoteTarget, currentWindow, payloadsSet, marksSet,
                 payloadSubject, marksSubject, sends, slot, loads, pageVars, csVars>>

(***************************************************************************)
(* The Preferences tab and the remaining bridge operations.                *)
(***************************************************************************)
\* The values of the radio group of the Preferences tab.
UnsupportedApiBehaviors == {"off", "warn", "error"}
PanelOrigins == {"pref", "has", "header"}
PanelSendCount == Cardinality({i \in 1..Len(sends) : sends[i].origin \in PanelOrigins})

\* TabPreferencesComponent.onChangeUnsupportedApi: the preference is stored and
\* then sent to the page.
onChangeUnsupportedApi(value) ==
  /\ PanelSendCount < MaxSends
  /\ sends' = Append(sends, updateUnsupportedApiBehavior(value, "pref"))
  /\ UNCHANGED <<panelVars, initpc, isRemoteTarget, currentWindow, payloadsSet, marksSet,
                 payloadSubject, marksSubject, historySubject, sortedHistory,
                 fetches, errors, slot, loads, pageVars, csVars>>

\* The getter addPropertyWarning installs over an unsupported property.
addPropertyWarning(behavior) ==
  CASE behavior = "warn" -> "warned"
    [] behavior = "error" -> "threw"
    [] OTHER -> "returned"

\* The page reads one of the properties addUnsupportedApiWarnings wrapped;
\* they are wrapped only where the host API exists.
ReadUnsupportedApi(f) ==
  /\ HostApi(f)
  /\ reads' = [reads EXCEPT ![f] = addPropertyWarning(unsupportedApiBehavior[f])]
  /\ UNCHANGED <<panelVars, bridgeVars, hasInteractiveCanvas, delivered,
                 unsupportedApiBehavior, runs, interactiveCanvasData,
                 interactiveCanvasReady, interactiveCanvasHeader,
                 webhookHistory, calls, csVars>>

\* One call made directly over a transport, with the value it resolved to.
ExecResult(value) ==
  [type |-> "hasInteractiveCanvas", data |-> value, transport |-> "exec",
   pc |-> "done", origin |-> "has", arg |-> "", pending |-> {}]

\* ChromeBridgeService.hasInteractiveCanvas: the flag is read from the device
\* page or from the content script of the tab.
BridgeHasInteractiveCanvas ==
  /\ PanelSendCount < MaxSends
  /\ IF isRemoteTarget
     THEN sends' = Append(sends,
            execOnRemoteTab("hasInteractiveCanvas", Undefined, "has", ""))
     ELSE sends' = Append(sends,
            IF CanAccessWindow
            THEN ExecResult(Str(IF hasInteractiveCanvas THEN "true" ELSE "false"))
            ELSE [ExecResult(Undefined) EXCEPT !.pc = "failed"])
  /\ errors' = IF CanAccessWindow THEN errors
               ELSE errors \cup {Rejection("hasInteractiveCanvas", CannotAccessWindow)}
  /\ UNCHANGED <<panelVars, initpc, isRemoteTarget, currentWindow, payloadsSet, marksSet,
                 payloadSubject, marksSubject, historySubject, sortedHistory,
                 fetches, slot, loads, pageVars, csVars>>

\* injectHeaderDom without its check of isRemoteTarget.
injectHeaderDom_unchecked ==
  /\ PanelSendCount < MaxSends
  /\ IF ~CanAccessWindow
     THEN /\ errors' = errors \cup {Rejection("injectHeaderDom", "TypeError")}
          /\ sends' = sends
          /\ styles' = styles
     ELSE /\ errors' = errors
          /\ styles' = styles + 1
          /\ sends' = Append(sends,
               broadcastMessage("Ext-ShowHeader", EmptyObject, "header", ""))
  /\ UNCHANGED <<updateInput, json, tabIsRemoteTarget, debugCalls, initpc, isRemoteTarget,
                 currentWindow, payloadsSet, marksSet, payloadSubject,
                 marksSubject, historySubject, sortedHistory, fetches, slot,
                 loads, pageVars, csVars>>

\* ChromeBridgeService.injectHeaderDom: refused on a remote target; otherwise
\* addStyle reads the id of the current window and inserts the style sheet,
\* and Ext-ShowHeader is broadcast.
injectHeaderDom ==
  /\ PanelSendCount < MaxSends
  /\ IF isRemoteTarget
     THEN /\ errors' = errors \cup {Rejection("injectHeaderDom", UnavailableOnRemote)}
          /\ sends' = sends
          /\ styles' = styles
     ELSE IF ~CanAccessWindow
     THEN /\ errors' = errors \cup {Rejection("injectHeaderDom", "TypeError")}
          /\ sends' = sends
          /\ styles' = styles
     ELSE /\ errors' = errors
          /\ styles' = styles + 1
          /\ sends' = Append(sends,
               broadcastMessage("Ext-ShowHeader", EmptyObject, "header", ""))
  /\ UNCHANGED <<updateInput, json, tabIsRemoteTarget, debugCalls, initpc, isRemoteTarget,
                 currentWindow, payloadsSet, marksSet, payloadSubject,
                 marksSubject, historySubject, sortedHistory, fetches, slot,
                 loads, pageVars, csVars>>

\* The constructor of TabPreferencesComponent copies the bridge's flag; the
\* template hides the header button by the copy.
TabPreferencesConstructor ==
  /\ ~tabIsRemoteTarget.taken
  /\ tabIsRemoteTarget' = [taken |-> TRUE, value |-> isRemoteTarget]
  /\ UNCHANGED <<bridgeVars, pageVars, csVars, updateInput, json, styles,
                 debugCalls>>

(***************************************************************************)
(* window.interactiveCanvasDebug, called from the console of the page.     *)
(***************************************************************************)
\* The message event both methods dispatch: its type is 'payload' and its
\* requestId the text 'requestId', written 0 here (no send has that id).
DebugMessage(data) == [type |-> "payload", requestId |-> 0, data |-> data]

\* interactiveCanvasDebug.onUpdate(data)
DebugOnUpdate(data) ==
  /\ HostApi(MainFrame)
  /\ Len(debugCalls) < MaxCalls
  /\ debugCalls' = Append(debugCalls, [method |-> "onUpdate", arg |-> data])
  /\ DispatchMessage(0, MainFrame, DebugMessage(data))
  /\ UNCHANGED <<bridgeVars, csVars, updateInput, json, tabIsRemoteTarget,
                 styles, hasInteractiveCanvas, reads, interactiveCanvasHeader,
                 webhookHistory, calls>>

\* interactiveCanvasDebug.onTtsMark(markName)
DebugOnTtsMark(markName) ==
  /\ HostApi(MainFrame)
  /\ Len(debugCalls) < MaxCalls
  /\ debugCalls' = Append(debugCalls, [method |-> "onTtsMark", arg |-> Str(markName)])
  /\ DispatchMessage(0, MainFrame, DebugMessage(Str(markName)))
  /\ UNCHANGED <<bridgeVars, csVars, updateInput, json, tabIsRemoteTarget,
                 styles, hasInteractiveCanvas, reads, interactiveCanvasHeader,
                 webhookHistory, calls>>

(***************************************************************************)
(* Specification.                                                          *)
(***************************************************************************)
Next ==
  \/ InitQuery1
  \/ InitQuery2
  \/ InitInjected
  \/ InitSyncPrefs
  \/ InitFinish
  \/ \E object \in JsonTexts : sendOnUpdate(object)
  \/ \E mark \in Marks : sendOnTtsMark(mark)
  \/ \E s \in 1..Len(sends) : BroadcastMessageStore(s)
  \/ \E s \in 1..Len(sends) : \E f \in Frames : InjectedScript(s, f)
  \/ \E s \in 1..Len(sends) : RemoteFrameUrl(s)
  \/ \E s \in 1..Len(sends) : RemoteEval(s)
  \/ loadSdk(MaxLoads)
  \/ \E l \in 1..Len(loads) : LoadSdkSetInterval(l)
  \/ \E l \in 1..Len(loads) : PollTick(l)
  \/ \E l \in 1..Len(loads) : PollCheck(l)
  \/ \E l \in 1..Len(loads) : PollFetch(l)
  \/ \E r \in 1..Len(runs) : \E d \in Dirs : RunHeader(r, d)
  \/ \E r \in 1..Len(runs) : RunGlobal(r)
  \/ \E r \in 1..Len(runs) : RunScenes(r)
  \/ \E r \in 1..Len(runs) : RunWebhooks(r)
  \/ \E text \in Texts : sendTextQuery(text)
  \/ \E state \in States : setCanvasState(state)
  \/ fetchHistory
  \/ \E value \in UnsupportedApiBehaviors : onChangeUnsupportedApi(value)
  \/ \E f \in Frames : ReadUnsupportedApi(f)
  \/ BridgeHasInteractiveCanvas
  \/ injectHeaderDom
  \/ \E object \in JsonTexts : DebugOnUpdate(Arr(<<JSONparse(object)>>))
  \/ \E mark \in Marks : DebugOnTtsMark(mark)
  \/ TabPreferencesConstructor

Spec == Init /\ [][Next]_vars


\* The Send Data and TTS Mark tabs driving the bridge.
NextBridge ==
  \/ InitQuery1
  \/ InitQuery2
  \/ InitInjected
  \/ InitSyncPrefs
  \/ InitFinish
  \/ \E object \in JsonTexts : sendOnUpdate(object)
  \/ \E mark \in Marks : sendOnTtsMark(mark)
  \/ \E s \in 1..Len(sends) : BroadcastMessageStore(s)
  \/ \E s \in 1..Len(sends) : \E f \in Frames : InjectedScript(s, f)
  \/ \E s \in 1..Len(sends) : RemoteFrameUrl(s)
  \/ \E s \in 1..Len(sends) : RemoteEval(s)

SpecBridge == Init /\ [][NextBridge]_vars

\* The state of a local session once init has completed with no stored
\* preference: the tab is selected and the sync message reached every frame.
SyncDone ==
  [updateUnsupportedApiBehavior("undefined", "sync") EXCEPT !.pc = "done"]

SyncDelivered(f) ==
  [by |-> 1, requestId |-> 1, type |-> SyncDone.type, data |-> SyncDone.data,
   cb |-> "setBehavior", arg |-> SyncDone.data]

InitLocalSession ==
  /\ initpc = "done"
  /\ isRemoteTarget = FALSE
  /\ currentWindow = LocalTab
  /\ payloadsSet = <<>>
  /\ marksSet = <<>>
  /\ payloadSubject = <<>>
  /\ marksSubject = <<>>
  /\ historySubject = NoHistory
  /\ sortedHistory = <<>>
  /\ fetches = 0
  /\ errors = {}
  /\ sends = <<SyncDone>>
  /\ slot = [type |-> SyncDone.type, requestId |-> 1, data |-> SyncDone.data]
  /\ loads = <<>>
  /\ hasInteractiveCanvas \in BOOLEAN
  /\ reads = [f \in Frames |-> "none"]
  /\ delivered = [f \in Contexts |-> IF f \in Frames THEN <<SyncDelivered(f)>> ELSE <<>>]
  /\ unsupportedApiBehavior = [f \in Frames |-> "off"]
  /\ runs = <<>>
  /\ interactiveCanvasData = EmptyResult
  /\ interactiveCanvasReady = FALSE
  /\ interactiveCanvasHeader = NoHeader
  /\ webhookHistory = <<>>
  /\ calls = <<>>
  /\ csReady = FALSE
  /\ csData = EmptyResult
  /\ csHistory = NoHistory
  /\ updateInput = <<>>
  /\ json = <<>>
  /\ tabIsRemoteTarget = NoCopy
  /\ styles = 0
  /\ debugCalls = <<>>

\* The Import /SDK button in a local session: loadSdk, its poll and
\* processSdk on the page.
NextSdk ==
  \/ \E s \in 1..Len(sends) : BroadcastMessageStore(s)
  \/ \E s \in 1..Len(sends) : \E f \in Frames : InjectedScript(s, f)
  \/ loadSdk(MaxLoads)
  \/ \E l \in 1..Len(loads) : LoadSdkSetInterval(l)
  \/ \E l \in 1..Len(loads) : PollTick(l)
  \/ \E l \in 1..Len(loads) : PollCheck(l)
  \/ \E l \in 1..Len(loads) : PollFetch(l)
  \/ \E r \in 1..Len(runs) : \E d \in Dirs : RunHeader(r, d)
  \/ \E r \in 1..Len(runs) : RunGlobal(r)
  \/ \E r \in 1..Len(runs) : RunScenes(r)
  \/ \E r \in 1..Len(runs) : RunWebhooks(r)

SpecSdk == InitLocalSession /\ [][NextSdk]_vars

\* The same under fair scheduling: a timer that is set keeps firing, and the
\* calls a tick awaits return.  Nothing makes the developer answer the
\* picker, so the page's run gets no fairness.
FairSdk ==
  /\ WF_vars(\E l \in 1..Len(loads) : PollTick(l))
  /\ WF_vars(\E l \in 1..Len(loads) : PollCheck(l))
  /\ WF_vars(\E l \in 1..Len(loads) : PollFetch(l))

SpecSdkFair == InitLocalSession /\ [][NextSdk]_vars /\ FairSdk

\* The same, with the developer pressing Import /SDK once more.
NextSdkAgain ==
  \/ \E s \in 1..Len(sends) : BroadcastMessageStore(s)
  \/ \E s \in 1..Len(sends) : \E f \in Frames : InjectedScript(s, f)
  \/ loadSdk(MaxLoads + 1)
  \/ \E l \in 1..Len(loads) : LoadSdkSetInterval(l)
  \/ \E l \in 1..Len(loads) : PollTick(l)
  \/ \E l \in 1..Len(loads) : PollCheck(l)
  \/ \E l \in 1..Len(loads) : PollFetch(l)
  \/ \E r \in 1..Len(runs) : \E d \in Dirs : RunHeader(r, d)
  \/ \E r \in 1..Len(runs) : RunGlobal(r)
  \/ \E r \in 1..Len(runs) : RunScenes(r)
  \/ \E r \in 1..Len(runs) : RunWebhooks(r)

SpecSdkAgain == InitLocalSession /\ [][NextSdkAgain]_vars

\* The state of a local session on a page with the host API when the
\* Ext-ProcessSdk message of the first loadSdk call has reached every frame:
\* processSdk has opened the directory picker and the poll timer is set.
LoadDone ==
  [broadcastMessage("Ext-ProcessSdk", EmptyObject, "load", "") EXCEPT !.pc = "done"]

LoadDelivered(f) ==
  [by |-> 2, requestId |-> 2, type |-> LoadDone.type, data |-> LoadDone.data,
   cb |-> IF f = MainFrame THEN "processSdk" ELSE "TypeError", arg |-> Undefined]

InitPicker ==
  /\ initpc = "done"
  /\ isRemoteTarget = FALSE
  /\ currentWindow = LocalTab
  /\ payloadsSet = <<>>
  /\ marksSet = <<>>
  /\ payloadSubject = <<>>
  /\ marksSubject = <<>>
  /\ historySubject = NoHistory
  /\ sortedHistory = <<>>
  /\ fetches = 0
  /\ errors = {}
  /\ sends = <<SyncDone, LoadDone>>
  /\ slot = [type |-> LoadDone.type, requestId |-> 2, data |-> LoadDone.data]
  /\ loads = <<[NewLoad("polling", 2) EXCEPT !.interval = TRUE]>>
  /\ hasInteractiveCanvas = TRUE
  /\ reads = [f \in Frames |-> "none"]
  /\ delivered = [f \in Contexts |->
                    IF f \in Frames THEN <<SyncDelivered(f), LoadDelivered(f)>>
                    ELSE <<>>]
  /\ unsupportedApiBehavior = [f \in Frames |-> "off"]
  /\ runs = <<NewRun(2, 2)>>
  /\ interactiveCanvasData = EmptyResult
  /\ interactiveCanvasReady = FALSE
  /\ interactiveCanvasHeader = NoHeader
  /\ webhookHistory = <<>>
  /\ calls = <<>>
  /\ csReady = FALSE
  /\ csData = EmptyResult
  /\ csHistory = NoHistory
  /\ updateInput = <<>>
  /\ json = <<>>
  /\ tabIsRemoteTarget = NoCopy
  /\ styles = 0
  /\ debugCalls = <<>>

\* processSdk on every directory the developer can pick.
NextProcessSdk ==
  \/ \E r \in 1..Len(runs) : \E d \in Projects : RunHeader(r, d)
  \/ \E r \in 1..Len(runs) : RunGlobal(r)
  \/ \E r \in 1..Len(runs) : RunScenes(r)
  \/ \E r \in 1..Len(runs) : RunWebhooks(r)

SpecProcessSdk == InitPicker /\ [][NextProcessSdk]_vars

\* The page's outbound calls and the History tab.
NextHistory ==
  \/ InitQuery1
  \/ InitQuery2
  \/ InitInjected
  \/ InitSyncPrefs
  \/ InitFinish
  \/ \E s \in 1..Len(sends) : BroadcastMessageStore(s)
  \/ \E s \in 1..Len(sends) : \E f \in Frames : InjectedScript(s, f)
  \/ \E s \in 1..Len(sends) : RemoteFrameUrl(s)
  \/ \E s \in 1..Len(sends) : RemoteEval(s)
  \/ \E text \in Texts : sendTextQuery(text)
  \/ \E state \in States : setCanvasState(state)
  \/ fetchHistory

SpecHistory == Init /\ [][NextHistory]_vars

\* The Preferences tab changing the unsupported-API mode while the page reads
\* the wrapped properties.
NextPreferences ==
  \/ InitQuery1
  \/ InitQuery2
  \/ InitInjected
  \/ InitSyncPrefs
  \/ InitFinish
  \/ \E s \in 1..Len(sends) : BroadcastMessageStore(s)
  \/ \E s \in 1..Len(sends) : \E f \in Frames : InjectedScript(s, f)
  \/ \E s \in 1..Len(sends) : RemoteFrameUrl(s)
  \/ \E s \in 1..Len(sends) : RemoteEval(s)
  \/ \E value \in UnsupportedApiBehaviors : onChangeUnsupportedApi(value)
  \/ \E f \in Frames : ReadUnsupportedApi(f)

SpecPreferences == Init /\ [][NextPreferences]_vars

\* The state init leaves when neither query found a tab: the session is
\* remote, there is no current window and the injection was refused.
InjectRefused ==
  [execOnRemoteTab("inject", Undefined, "inject", "") EXCEPT !.pc = "failed"]

InitNoTab ==
  /\ initpc = "failed"
  /\ isRemoteTarget = TRUE
  /\ currentWindow = NoTab
  /\ payloadsSet = <<>>
  /\ marksSet = <<>>
  /\ payloadSubject = <<>>
  /\ marksSubject = <<>>
  /\ historySubject = NoHistory
  /\ sortedHistory = <<>>
  /\ fetches = 0
  /\ errors = {Rejection("init", CannotAccessWindow)}
  /\ sends = <<InjectRefused>>
  /\ slot = NoMessage
  /\ loads = <<>>
  /\ hasInteractiveCanvas \in BOOLEAN
  /\ reads = [f \in Frames |-> "none"]
  /\ delivered = [f \in Contexts |-> <<>>]
  /\ unsupportedApiBehavior = [f \in Frames |-> "off"]
  /\ runs = <<>>
  /\ interactiveCanvasData = EmptyResult
  /\ interactiveCanvasReady = FALSE
  /\ interactiveCanvasHeader = NoHeader
  /\ webhookHistory = <<>>
  /\ calls = <<>>
  /\ csReady = FALSE
  /\ csData = EmptyResult
  /\ csHistory = NoHistory
  /\ updateInput = <<>>
  /\ json = <<>>
  /\ tabIsRemoteTarget = NoCopy
  /\ styles = 0
  /\ debugCalls = <<>>

\* The panel's tabs driving a bridge that found no tab.
NextNoTab ==
  \/ \E object \in JsonTexts : sendOnUpdate(object)
  \/ \E mark \in Marks : sendOnTtsMark(mark)
  \/ fetchHistory
  \/ BridgeHasInteractiveCanvas
  \/ injectHeaderDom
  \/ loadSdk(MaxLoads)

SpecNoTab == InitNoTab /\ [][NextNoTab]_vars

\* The Preferences tab's header button and the Import /SDK button, in
\* whatever session init selects.
NextRemoteOnly ==
  \/ InitQuery1
  \/ InitQuery2
  \/ InitInjected
  \/ InitSyncPrefs
  \/ InitFinish
  \/ \E s \in 1..Len(sends) : BroadcastMessageStore(s)
  \/ \E s \in 1..Len(sends) : \E f \in Frames : InjectedScript(s, f)
  \/ \E s \in 1..Len(sends) : RemoteFrameUrl(s)
  \/ \E s \in 1..Len(sends) : RemoteEval(s)
  \/ injectHeaderDom
  \/ loadSdk(MaxLoads)
  \/ \E l \in 1..Len(loads) : LoadSdkSetInterval(l)

SpecRemoteOnly == Init /\ [][NextRemoteOnly]_vars

\* Everything that adds to the suggestion lists, from the moment the page
\* shows the directory picker for a loadSdk call: the two send commands, which
\* write the lists before their first await, and the poll of that call.
NextSuggestions ==
  \/ \E object \in JsonTexts : sendOnUpdate(object)
  \/ \E mark \in Marks : sendOnTtsMark(mark)
  \/ \E l \in 1..Len(loads) : PollTick(l)
  \/ \E l \in 1..Len(loads) : PollCheck(l)
  \/ \E l \in 1..Len(loads) : PollFetch(l)
  \/ \E r \in 1..Len(runs) : \E d \in Dirs : RunHeader(r, d)
  \/ \E r \in 1..Len(runs) : RunGlobal(r)
  \/ \E r \in 1..Len(runs) : RunScenes(r)
  \/ \E r \in 1..Len(runs) : RunWebhooks(r)

SpecSuggestions == InitPicker /\ [][NextSuggestions]_vars

\* The panel's components coming up and sending while init runs.
NextStartup ==
  \/ InitQuery1
  \/ InitQuery2
  \/ InitInjected
  \/ InitSyncPrefs
  \/ InitFinish
  \/ TabPreferencesConstructor
  \/ \E object \in JsonTexts : sendOnUpdate(object)
  \/ \E mark \in Marks : sendOnTtsMark(mark)
  \/ \E s \in 1..Len(sends) : BroadcastMessageStore(s)
  \/ \E s \in 1..Len(sends) : \E f \in Frames : InjectedScript(s, f)
  \/ \E s \in 1..Len(sends) : RemoteFrameUrl(s)
  \/ \E s \in 1..Len(sends) : RemoteEval(s)

SpecStartup == Init /\ [][NextStartup]_vars

\* The console of the page next to the two send commands of the panel, in a
\* local session.
NextDebug ==
  \/ \E object \in JsonTexts : DebugOnUpdate(Arr(<<JSONparse(object)>>))
  \/ \E mark \in Marks : DebugOnTtsMark(mark)
  \/ \E object \in JsonTexts : sendOnUpdate(object)
  \/ \E mark \in Marks : sendOnTtsMark(mark)
  \/ \E s \in 1..Len(sends) : BroadcastMessageStore(s)
  \/ \E s \in 1..Len(sends) : \E f \in Frames : InjectedScript(s, f)

SpecDebug == InitLocalSession /\ [][NextDebug]_vars

\* jsonRepair applied to a text.
ApplyJsonRepair ==
  /\ json = <<>>
  /\ json' = repaired(updateInput)
  /\ UNCHANGED <<bridgeVars, pageVars, csVars, updateInput, tabIsRemoteTarget,
                 styles, debugCalls>>

\* jsonRepair applied to the text it returned.
ReapplyJsonRepair ==
  /\ json # <<>> /\ json # updateInput
  /\ updateInput' = json
  /\ json' = repaired(json)
  /\ UNCHANGED <<bridgeVars, pageVars, csVars, tabIsRemoteTarget, styles,
                 debugCalls>>

InitRepair ==
  /\ updateInput \in JsonLikeTexts
  /\ json = <<>>
  /\ tabIsRemoteTarget = NoCopy
  /\ styles = 0
  /\ debugCalls = <<>>
  /\ initpc = "query1"
  /\ isRemoteTarget = FALSE
  /\ currentWindow = NoTab
  /\ payloadsSet = <<>>
  /\ marksSet = <<>>
  /\ payloadSubject = <<>>
  /\ marksSubject = <<>>
  /\ historySubject = NoHistory
  /\ sortedHistory = <<>>
  /\ fetches = 0
  /\ errors = {}
  /\ sends = <<>>
  /\ slot = NoMessage
  /\ loads = <<>>
  /\ hasInteractiveCanvas = TRUE
  /\ reads = [f \in Frames |-> "none"]
  /\ delivered = [f \in Contexts |-> <<>>]
  /\ unsupportedApiBehavior = [f \in Frames |-> "off"]
  /\ runs = <<>>
  /\ interactiveCanvasData = EmptyResult
  /\ interactiveCanvasReady = FALSE
  /\ interactiveCanvasHeader = NoHeader
  /\ webhookHistory = <<>>
  /\ calls = <<>>
  /\ csReady = FALSE
  /\ csData = EmptyResult
  /\ csHistory = NoHistory

NextRepair ==
  \/ ApplyJsonRepair
  \/ ReapplyJsonRepair

SpecRepair == InitRepair /\ [][NextRepair]_vars


(***************************************************************************)
(* Properties.                                                             *)
(***************************************************************************)
Local(s) == sends[s].transport = "local"
Injected(s) == sends[s].pc \in {"exec", "done"}
Page == delivered[MainFrame]

\* The number of dispatches the script of send s made in context f.
Dispatches(s, f) ==
  Cardinality({i \in 1..Len(delivered[f]) : delivered[f][i].by = s})

RECURSIVE SumDispatches(_, _)
SumDispatches(s, f) ==
  IF f < RemoteFrame THEN 0 ELSE Dispatches(s, f) + SumDispatches(s, f - 1)

\* C1: of two local sends A and B with A issued before B, the page's
\* 'message' listener receives A's message before it receives B's message.
C1_SendOrder ==
  \A a \in 1..Len(sends) : \A b \in 1..Len(sends) :
    (a < b /\ Local(a) /\ Local(b) /\ Injected(a) /\ Injected(b)) =>
      \A j \in 1..Len(Page) :
        Page[j].requestId = b => \E i \in 1..(j - 1) : Page[i].requestId = a

\* C5 as stated: one send causes exactly one dispatch, in exactly one context.
C5_ExactlyOneContext ==
  \A s \in 1..Len(sends) :
    sends[s].pc = "done" => SumDispatches(s, NumFrames) = 1

\* C5 as amended: a local send causes exactly one dispatch in every frame of
\* the selected tab (and never more than one per frame while it is under
\* way); a remote send is evaluated once, in the device's frame.
C5_OnePerFrame ==
  \A s \in 1..Len(sends) :
    /\ \A f \in Contexts : Dispatches(s, f) <= 1
    /\ (sends[s].pc = "done" /\ Local(s)) =>
         /\ \A f \in Frames : Dispatches(s, f) = 1
         /\ Dispatches(s, RemoteFrame) = 0
    /\ (sends[s].pc = "done" /\ ~Local(s)) =>
         /\ \A f \in Frames : Dispatches(s, f) = 0
         /\ Dispatches(s, RemoteFrame) = 1

C5_Witness ==
  \E s \in 1..Len(sends) :
    /\ sends[s].pc = "done" /\ Local(s) /\ sends[s].origin \in UserOrigins
    /\ \A f \in Frames : Dispatches(s, f) = 1
    /\ SumDispatches(s, NumFrames) >= 2

\* C6: a TTS mark m sent with sendOnTtsMark(m) on a local target whose page
\* has the host API reaches the page's onTtsMark as the string m.
C6_TtsMarkName ==
  \A i \in 1..Len(Page) :
    (Page[i].type = "TtsEndpointEvent" /\ Page[i].cb = "onTtsMark") =>
      Page[i].arg = Str(sends[Page[i].requestId].arg)

\* C7: a JSON text j sent with sendOnUpdate(j) on a local target whose page
\* has the host API makes the page's onUpdate run once, with the array whose
\* only element is the object parsed from j.
C7_UpdateOnce ==
  \A s \in 1..Len(sends) :
    (sends[s].origin = "update" /\ Local(s) /\ sends[s].pc = "done"
       /\ hasInteractiveCanvas) =>
      /\ Cardinality({i \in 1..Len(Page) :
           Page[i].cb = "onUpdate" /\ Page[i].requestId = s}) = 1
      /\ \A i \in 1..Len(Page) :
           Page[i].by = s =>
             /\ Page[i].cb = "onUpdate"
             /\ Page[i].arg = Arr(<<JSONparse(sends[s].arg)>>)

\* C10: isRemoteTarget changes only in init, at most once, from false to
\* true when the query for the current window found no tab; the selected tab
\* is set only by init's queries; once init has completed neither changes.
C10_TransportOnce ==
  [][ /\ (isRemoteTarget' # isRemoteTarget) =>
           (initpc = "query2" /\ ~isRemoteTarget /\ isRemoteTarget')
      /\ (currentWindow' # currentWindow) => initpc \in {"query1", "query2"}
      /\ (initpc \in {"done", "failed"}) =>
           (isRemoteTarget' = isRemoteTarget /\ currentWindow' = currentWindow)
    ]_vars

C10_Witness ==
  /\ initpc = "done"
  /\ isRemoteTarget
  /\ \E s \in 1..Len(sends) : sends[s].origin \in UserOrigins /\ sends[s].pc = "done"

\* C2: once a loadSdk call has seen the ready flag, the result is fetched
\* once and published once, also when ticks overlap.
C2_FetchOnce ==
  \A l \in 1..Len(loads) :
    /\ loads[l].inFetch + loads[l].fetched <= 1
    /\ loads[l].published <= 1

\* The runs that a loadSdk call caused: started by its script or by its message.
RunsOf(l) ==
  {r \in 1..Len(runs) : runs[r].script = loads[l].send \/ runs[r].by = loads[l].send}

\* C3: when the poll of a loadSdk call reads ready = true, the processing
\* that this call requested has completed.
C3_ReadyIsFresh ==
  \A l \in 1..Len(loads) :
    (loads[l].inFetch > 0 \/ loads[l].fetched > 0) =>
      \E r \in RunsOf(l) : runs[r].pc = "done"

\* The whole result of one traversal of a directory.
Traversal(dir) ==
  PushResult(PushResult(PushResult(EmptyResult, processSdkGlobal(dir)),
                        processSdkCustom(dir)), processSdkWebhooks(dir))

C4_State ==
  /\ \A r \in 1..Len(runs) : runs[r].events = IF runs[r].pc = "done" THEN 1 ELSE 0
  /\ interactiveCanvasReady => \E r \in 1..Len(runs) : runs[r].pc = "done"
  /\ csReady => \E r \in 1..Len(runs) : runs[r].pc = "done"
  /\ Len(runs) = 1 =>
       /\ interactiveCanvasReady <=> runs[1].pc = "done"
       /\ interactiveCanvasReady =>
            interactiveCanvasData = Traversal(DirNamed(runs[1].dir))

C4_Step ==
  /\ (interactiveCanvasReady' /\ ~interactiveCanvasReady) =>
       \E r \in 1..Len(runs) : runs[r].pc = "webhooks" /\ runs'[r].pc = "done"
  /\ \A r \in 1..Len(runs) :
       runs'[r].events # runs[r].events =>
         (runs[r].pc = "webhooks" /\ runs'[r].pc = "done" /\ interactiveCanvasReady')

\* C4: a run keeps the ready flag false until its global, scenes and webhooks
\* results are appended; the flag is raised only then, and the run dispatches
\* InteractiveCanvas_ProcessSdk exactly once, when it succeeds, not before.
C4_ReadyAfterAllSteps == [](C4_State) /\ [][C4_Step]_vars

C4_Witness ==
  \E r \in 1..Len(runs) :
    /\ runs[r].pc = "done" /\ runs[r].events = 1
    /\ interactiveCanvasReady /\ csReady
    /\ runs[r].dir = "sample"
    /\ interactiveCanvasData.marks = <<"globalyaml", "globalyaml2", "sceneyaml", "code">>

\* The kind of a history entry, and the kind an outbound call is logged as.
Kind(entry) == IF entry.type = "text" THEN "text-query" ELSE "state-update"
KindOfCall(call) ==
  IF call.api = "sendTextQuery" THEN "text-query" ELSE "state-update"

LogAppendOnly ==
  /\ IsPrefix(webhookHistory, webhookHistory')
  /\ IsPrefix(csHistory.entries, csHistory'.entries)

\* C9 as stated: the log only grows at its end, and the History tab's
\* reversal leaves the order of the log and of the emitted sequence alone.
C9_NothingReordered ==
  /\ [][LogAppendOnly]_vars
  /\ [](historySubject.defined => IsPrefix(historySubject.entries, webhookHistory))

\* C9 as amended: the log only grows at its end and the reversal leaves it
\* alone; the array emitted on historySubject is a copy of the log that the
\* History tab reverses in place, so it ends up newest first.
C9_StoredOrderKept ==
  /\ [][LogAppendOnly]_vars
  /\ [](historySubject.defined =>
          /\ IsPrefix(Reverse(historySubject.entries), webhookHistory)
          /\ sortedHistory = historySubject.entries)

C9_Witness ==
  /\ historySubject.defined
  /\ Len(historySubject.entries) = 2
  /\ Len(webhookHistory) = 3
  /\ historySubject.entries[1].timestamp > historySubject.entries[2].timestamp

(***************************************************************************)
(* Properties of the SDK processor.                                        *)
(***************************************************************************)
Started(r) == runs[r].pc # "picker"
Dir(r) == DirNamed(runs[r].dir)
OnlyRun == Len(runs) = 1

NoSettings(d) == ~d.settingsDir \/ ~d.settingsYaml

\* The file name the settings refer to: smallLogoImage without the prefix.
ExpectedLogo(d) ==
  LET ref == d.settings.smallLogoImage IN
  Join(IF ref # <<>> /\ Head(ref) = "$resources.images." THEN Tail(ref) ELSE ref)
    \o ".png"
LogoPresent(d) == d.resourcesDir /\ d.imagesDir /\ ExpectedLogo(d) \in d.images
LogoMissing(d) == ~NoSettings(d) /\ ~LogoPresent(d)
RequiredMissing(d) ==
  LogoMissing(d) \/ ~d.customDir \/ ~d.globalDir \/ ~d.scenesDir
NoWebhooks(d) == ~d.webhooksDir \/ ~d.fulfillmentDir
AllParse(d) ==
  /\ \A i \in 1..Len(d.global) : d.global[i].parses
  /\ \A i \in 1..Len(d.scenes) : d.scenes[i].parses

\* C11: a run on a directory without settings or settings/settings.yaml
\* fails: it never raises the ready flag, dispatches no
\* InteractiveCanvas_ProcessSdk event and writes no header.
C11_NoSettingsFails ==
  \A r \in 1..Len(runs) :
    (Started(r) /\ NoSettings(Dir(r))) =>
      /\ runs[r].pc = "failed" /\ runs[r].error = "NotFoundError"
      /\ runs[r].events = 0
      /\ ~runs[r].header
      /\ OnlyRun =>
           /\ ~interactiveCanvasReady /\ ~csReady
           /\ interactiveCanvasHeader = NoHeader
           /\ interactiveCanvasData = EmptyResult /\ csData = EmptyResult

C11_Witness ==
  \E r \in 1..Len(runs) :
    /\ runs[r].pc = "failed" /\ runs[r].error = "NotFoundError"
    /\ Dir(r).settingsDir /\ ~Dir(r).settingsYaml
    /\ Dir(r).globalDir /\ Dir(r).scenesDir /\ Dir(r).webhooksDir
    /\ interactiveCanvasHeader = NoHeader /\ ~interactiveCanvasReady

\* C12: a run on a directory without custom/global, custom/scenes or the
\* logo image of the settings fails with NotFound at that point and goes no
\* further: it never raises the ready flag and dispatches no event, so no
\* aggregate result reaches the content script.
C12_RequiredPartsFatal ==
  \A r \in 1..Len(runs) :
    (Started(r) /\ RequiredMissing(Dir(r))) =>
      /\ runs[r].pc # "done" /\ runs[r].events = 0
      /\ LogoMissing(Dir(r)) => (runs[r].pc = "failed" /\ ~runs[r].header)
      /\ ~Dir(r).globalDir => runs[r].pc \in {"global", "failed"}
      /\ ~Dir(r).scenesDir => runs[r].pc \in {"global", "scenes", "failed"}
      /\ (runs[r].pc = "failed" /\ AllParse(Dir(r))) =>
           runs[r].error = "NotFoundError"
      /\ OnlyRun => (~interactiveCanvasReady /\ ~csReady /\ csData = EmptyResult)

C12_Witness ==
  \E r \in 1..Len(runs) :
    /\ runs[r].pc = "failed" /\ runs[r].error = "NotFoundError"
    /\ runs[r].header
    /\ Dir(r).globalDir /\ ~Dir(r).scenesDir
    /\ interactiveCanvasData.marks # <<>>
    /\ ~interactiveCanvasReady /\ ~csReady /\ csData = EmptyResult

C13_State ==
  \A r \in 1..Len(runs) :
    (Started(r) /\ NoWebhooks(Dir(r)) /\ runs[r].pc = "done") =>
      /\ runs[r].events = 1
      /\ OnlyRun =>
           /\ interactiveCanvasReady /\ csReady
           /\ interactiveCanvasData =
                [data |-> processSdkGlobal(Dir(r)).data \o processSdkCustom(Dir(r)).data,
                 marks |-> processSdkGlobal(Dir(r)).marks \o processSdkCustom(Dir(r)).marks]
           /\ csData = interactiveCanvasData

C13_Step ==
  \A r \in 1..Len(runs) :
    (runs[r].pc = "webhooks" /\ runs'[r] # runs[r]) =>
      (runs'[r].pc = "done" /\ interactiveCanvasReady')

\* C13: a run on a directory without webhooks (or without
\* webhooks/ActionsOnGoogleFulfillment) completes: the webhooks step adds
\* nothing, the global and scenes results are kept and ready becomes true.
C13_NoWebhooksCompletes == [](C13_State) /\ [][C13_Step]_vars

C13_Witness ==
  \E r \in 1..Len(runs) :
    /\ runs[r].pc = "done" /\ runs[r].caught = "NotFoundError"
    /\ Dir(r).webhooksDir /\ ~Dir(r).fulfillmentDir
    /\ interactiveCanvasReady /\ csReady
    /\ Len(interactiveCanvasData.data) > 0 /\ Len(interactiveCanvasData.marks) > 0

\* C14: scanning a webhook source without a (balanced) canvas construction
\* literal raises no exception: the webhooks step of a completed run had
\* nothing to catch when the webhooks directory exists.
C14_NoLiteralNoException ==
  \A r \in 1..Len(runs) :
    (runs[r].pc = "done" /\ ~NoWebhooks(Dir(r))) => runs[r].caught = ""

\* What the files of a step contribute when a failing file contributes
\* nothing and every other file contributes its payloads and marks.
RECURSIVE ContainedYaml(_, _)
ContainedYaml(files, scenes) ==
  IF files = <<>> THEN EmptyResult
  ELSE LET events == IF scenes THEN Head(files).tree.intentEvents
                     ELSE <<Head(files).tree>>
           rest == ContainedYaml(Tail(files), scenes)
       IN  IF ~Head(files).parses THEN rest
           ELSE [data |-> EventsData(events) \o rest.data,
                 marks |-> EventsMarks(events) \o rest.marks]

RECURSIVE ContainedWebhooks(_)
ContainedWebhooks(files) ==
  IF files = <<>> THEN EmptyResult
  ELSE LET rest == ContainedWebhooks(Tail(files)) IN
       IF ~EndsWithJsOrTs(Head(files).ext) \/ CanvasResponses(Head(files).text, 1) = <<>>
       THEN rest
       ELSE [data |-> Payloads(CanvasResponses(Head(files).text, 1)) \o rest.data,
             marks |-> MarksIn(Head(files).text) \o rest.marks]

ContainedTraversal(d) ==
  PushResult(PushResult(ContainedYaml(d.global, FALSE), ContainedYaml(d.scenes, TRUE)),
             IF NoWebhooks(d) THEN EmptyResult ELSE ContainedWebhooks(d.hooks))

\* C15: a file that fails to parse or to yield a canvas literal contributes
\* nothing and stops nothing: the run does not fail, and its result holds
\* what every other file of every step contributes.
C15_FailuresContained ==
  \A r \in 1..Len(runs) :
    (Started(r) /\ ~NoSettings(Dir(r)) /\ ~RequiredMissing(Dir(r))) =>
      /\ runs[r].pc # "failed"
      /\ (runs[r].pc = "done" /\ OnlyRun) =>
           interactiveCanvasData = ContainedTraversal(Dir(r))

\* C16: the result of a completed run is the global results, then the scenes
\* results, then the webhooks results, each in file order and document
\* order with duplicates kept; the sample project gives the marks
\* globalyaml, globalyaml2, sceneyaml, code.
C16_AggregateOrder ==
  \A r \in 1..Len(runs) :
    (runs[r].pc = "done" /\ OnlyRun) =>
      /\ interactiveCanvasData.data =
           processSdkGlobal(Dir(r)).data \o processSdkCustom(Dir(r)).data
             \o processSdkWebhooks(Dir(r)).data
      /\ interactiveCanvasData.marks =
           processSdkGlobal(Dir(r)).marks \o processSdkCustom(Dir(r)).marks
             \o processSdkWebhooks(Dir(r)).marks
      /\ csData = interactiveCanvasData
      /\ runs[r].dir = Project("ok", "ok", "sample", "sample", "sample").name =>
           interactiveCanvasData.marks =
             <<"globalyaml", "globalyaml2", "sceneyaml", "code">>
      /\ runs[r].dir = Project("p1", "ok", "two", "data", "two").name =>
           /\ interactiveCanvasData.marks =
                <<"intro", "globalyaml", "globalyaml2", "welcome", "sceneyaml",
                  "start", "code">>
           /\ interactiveCanvasData.data =
                <<"{\"command\":\"GLOBAL\"}", "{\"command\":\"PLAY\"}",
                  "{\"command\":\"GLOBAL\"}", "{\"command\":\"GLOBAL\"}",
                  "{\"scene\":1}", "{\"scene\":2}", "{\"scene\":1}",
                  "{command: 'START_GAME'}",
                  "{command: 'WIN_GAME', displayedWord: displayedWord}",
                  "{command: 'CORRECT_ANSWER', displayedWord: displayedWord}",
                  "{command: 'LOSE_GAME'}", "{command: 'INCORRECT_ANSWER'}">>

C16_Witness ==
  \E r \in 1..Len(runs) :
    /\ runs[r].pc = "done" /\ interactiveCanvasReady
    /\ runs[r].dir = Project("p1", "ok", "two", "data", "two").name
    /\ Len(interactiveCanvasData.data) = 12
    /\ Len(interactiveCanvasData.marks) = 7

\* C17: the header a run writes has the title and the project id of the
\* settings and the logo file resources/images/<name>.png, <name> being
\* smallLogoImage without the prefix $resources.images.; it is written
\* whenever that file exists.
C17_HeaderFromSettings ==
  \A r \in 1..Len(runs) :
    (Started(r) /\ ~NoSettings(Dir(r))) =>
      /\ runs[r].header <=> LogoPresent(Dir(r))
      /\ (runs[r].header /\ OnlyRun) =>
           /\ interactiveCanvasHeader.set
           /\ interactiveCanvasHeader.title = Dir(r).settings.displayName
           /\ interactiveCanvasHeader.projectId = Dir(r).settings.projectId
           /\ interactiveCanvasHeader.logoFile =
                "resources/images/" \o ExpectedLogo(Dir(r))
      /\ (runs[r].header /\ OnlyRun
            /\ Dir(r).settings =
                 Settings(TRUE, TRUE, "T1", "P1", <<"$resources.images.", "logo">>)) =>
           interactiveCanvasHeader =
             [set |-> TRUE, title |-> "T1", projectId |-> "P1",
              logoFile |-> "resources/images/logo.png"]

C17_Witness ==
  \E r \in 1..Len(runs) :
    /\ runs[r].header
    /\ Dir(r).settings.smallLogoImage = <<"$resources.images.", "logo">>
    /\ interactiveCanvasHeader.title = "T1"
    /\ interactiveCanvasHeader.projectId = "P1"
    /\ interactiveCanvasHeader.logoFile = "resources/images/logo.png"

\* The number of canvas-data entries of a document under the schema path.
RECURSIVE CountCandidates(_)
CountCandidates(candidates) ==
  IF candidates = <<>> THEN 0
  ELSE (IF Head(candidates).canvas THEN Len(Head(candidates).data) ELSE 0)
       + CountCandidates(Tail(candidates))

RECURSIVE CountEvents(_)
CountEvents(events) ==
  IF events = <<>> THEN 0
  ELSE (IF Head(events).handler THEN CountCandidates(Head(events).candidates) ELSE 0)
       + CountEvents(Tail(events))

RECURSIVE CountFiles(_, _)
CountFiles(files, scenes) ==
  IF files = <<>> THEN 0
  ELSE CountEvents(IF scenes THEN Head(files).tree.intentEvents
                   ELSE <<Head(files).tree>>)
       + CountFiles(Tail(files), scenes)

IsJsonText(entry) ==
  entry \in {"{\"command\":\"GLOBAL\"}", "{\"command\":\"PLAY\"}",
             "{\"scene\":1}", "{\"scene\":2}"}

\* C18: the global and the scenes step return one entry per canvas-data
\* entry of their documents, each the JSON text of the entry, in document
\* order; a document without the path adds nothing and fails nothing.
C18_StructuredEntries ==
  \A r \in 1..Len(runs) :
    (Started(r) /\ OnlyRun /\ AllParse(Dir(r))) =>
      /\ runs[r].pc = "scenes" =>
           Len(interactiveCanvasData.data) = CountFiles(Dir(r).global, FALSE)
      /\ runs[r].pc = "webhooks" =>
           /\ Len(interactiveCanvasData.data) =
                CountFiles(Dir(r).global, FALSE) + CountFiles(Dir(r).scenes, TRUE)
           /\ (Dir(r).global = GlobalOf("two") /\ Dir(r).scenes = ScenesOf("data")) =>
                interactiveCanvasData.data =
                  <<"{\"command\":\"GLOBAL\"}", "{\"command\":\"PLAY\"}",
                    "{\"command\":\"GLOBAL\"}", "{\"command\":\"GLOBAL\"}",
                    "{\"scene\":1}", "{\"scene\":2}", "{\"scene\":1}">>
      /\ runs[r].pc \in {"scenes", "webhooks"} =>
           \A i \in 1..Len(interactiveCanvasData.data) :
             IsJsonText(interactiveCanvasData.data[i])
      /\ (runs[r].pc = "failed" /\ runs[r].header) => RequiredMissing(Dir(r))

C18_Witness ==
  \E r \in 1..Len(runs) :
    /\ runs[r].pc = "webhooks"
    /\ Dir(r).global = GlobalOf("nopath") /\ Dir(r).scenes = ScenesOf("data")
    /\ interactiveCanvasData.data =
         <<"{\"command\":\"GLOBAL\"}", "{\"scene\":1}", "{\"scene\":2}", "{\"scene\":1}">>

(***************************************************************************)
(* Properties of the unsupported-API mode.                                 *)
(***************************************************************************)
BehaviorSends ==
  {i \in 1..Len(sends) : sends[i].type = "Ext-UnsupportedApiBehavior"}

BehaviorDelivered(f) ==
  \E i \in 1..Len(delivered[f]) : delivered[f][i].cb = "setBehavior"

C19_State ==
  /\ \A f \in Frames :
       /\ unsupportedApiBehavior[f] \in {"off", "warn", "error"}
       /\ unsupportedApiBehavior[f] # "off" => BehaviorDelivered(f)
  /\ \A i \in BehaviorSends :
       sends[i].arg = "undefined" => sends[i].data = Str("off")

C19_Step ==
  \A f \in Frames :
    reads'[f] # reads[f] =>
      /\ unsupportedApiBehavior[f] = "error" => reads'[f] = "threw"
      /\ unsupportedApiBehavior[f] = "warn" => reads'[f] = "warned"
      /\ unsupportedApiBehavior[f] = "off" => reads'[f] = "returned"

\* C19: the page's unsupported-API mode is always one of off, warn and error;
\* it is off until an Ext-UnsupportedApiBehavior message arrives, an unset
\* preference being sent as off; and a read of a wrapped property throws in
\* error mode, warns and returns in warn mode, and returns silently in off
\* mode.
C19_ModeAndReads == [](C19_State) /\ [][C19_Step]_vars

\* C19 witness: the stored preference was unset and sent as off, the mode was
\* then changed to error, and a read of a wrapped property threw.
C19_Witness ==
  /\ \E i \in BehaviorSends :
       sends[i].origin = "sync" /\ sends[i].arg = "undefined" /\ sends[i].pc = "done"
  /\ \E i \in BehaviorSends : sends[i].origin = "pref" /\ sends[i].arg = "error"
  /\ unsupportedApiBehavior[MainFrame] = "error"
  /\ reads[MainFrame] = "threw"

(***************************************************************************)
(* Properties of a bridge without a window.                                *)
(***************************************************************************)
TransportOps ==
  {"sendOnUpdate", "sendOnTtsMark", "fetchHistory", "hasInteractiveCanvas",
   "injectHeaderDom", "loadSdk"}

Rejected == {e.op : e \in errors}

\* The operations the panel has asked of the bridge, as far as the state
\* records them.
Asked ==
  {OpOf(sends[i].origin) : i \in 2..Len(sends)}
    \cup (IF fetches > 0 THEN {"fetchHistory"} ELSE {})
    \cup (IF loads # <<>> THEN {"loadSdk"} ELSE {})

NothingDispatched ==
  /\ \A f \in Contexts : delivered[f] = <<>>
  /\ slot = NoMessage
  /\ runs = <<>>

\* C20: in a session whose bridge found no tab or window, every operation
\* that needs the transport is rejected with an error its caller receives,
\* and nothing is dispatched to any page.
C20_NoWindowFails ==
  (initpc = "failed" /\ currentWindow = NoTab) =>
    /\ Asked \subseteq Rejected
    /\ \A i \in 2..Len(sends) :
         /\ sends[i].pc = "failed"
         /\ Rejection(OpOf(sends[i].origin), CannotAccessWindow) \in errors
    /\ \A l \in 1..Len(loads) : loads[l].pc = "failed" /\ ~loads[l].interval
    /\ fetches > 0 => historySubject = NoHistory
    /\ NothingDispatched

\* C20 witness: each of the six operations was asked for without a window
\* and each was rejected.
C20_Witness ==
  /\ initpc = "failed" /\ currentWindow = NoTab
  /\ TransportOps \subseteq Rejected
  /\ TransportOps \ {"injectHeaderDom"} \subseteq Asked
  /\ NothingDispatched

(***************************************************************************)
(* Properties of jsonRepair.                                               *)
(***************************************************************************)
\* Every maximal run of word characters of t stands between double quotes.
TokensDoubleQuoted(t) ==
  \A i \in 1..Len(t) :
    (t[i] \in WordChars /\ (i = 1 \/ t[i - 1] \notin WordChars)) =>
      /\ i > 1 /\ t[i - 1] = "\""
      /\ RunEnd(t, i) < Len(t) /\ t[RunEnd(t, i) + 1] = "\""

\* Double-quoted keys and values, nothing between a brace and the quote next
\* to it (so no padding and no trailing comma), no newline and no doubled
\* space.
CanonicalText(t) ==
  /\ Len(t) >= 4
  /\ t[1] = "{" /\ t[2] = "\""
  /\ t[Len(t)] = "}" /\ t[Len(t) - 1] = "\""
  /\ \A i \in 1..Len(t) : t[i] # "'" /\ t[i] # "\n"
  /\ \A i \in 1..(Len(t) - 1) : ~(t[i] = " " /\ t[i + 1] = " ")
  /\ TokensDoubleQuoted(t)

\* C21: for every JSON-like text of a flat object (bare or quoted word keys,
\* quoted word values, newlines, doubled spaces, padding inside the braces, a
\* trailing comma) jsonRepair returns the canonical text, and applied to a
\* canonical text it returns that text unchanged.
C21_RepairCanonical ==
  json # <<>> =>
    /\ CanonicalText(json)
    /\ CanonicalText(updateInput) => json = updateInput

(***************************************************************************)
(* Properties of the suggestion lists.                                     *)
(***************************************************************************)
SentPayloads == {sends[i].arg : i \in {j \in 1..Len(sends) : sends[j].origin = "update"}}
SentMarks == {sends[i].arg : i \in {j \in 1..Len(sends) : sends[j].origin = "tts"}}
Imported == \E l \in 1..Len(loads) : loads[l].published > 0
NoValueTwice(seq) ==
  \A i \in 1..Len(seq) : \A j \in 1..Len(seq) : seq[i] = seq[j] => i = j

C22_State ==
  /\ SentPayloads \subseteq Range(payloadSubject)
  /\ SentMarks \subseteq Range(marksSubject)
  /\ Imported =>
       /\ Range(MapRepair(csData.data)) \subseteq Range(payloadSubject)
       /\ Range(csData.marks) \subseteq Range(marksSubject)
  /\ NoValueTwice(payloadSubject)
  /\ NoValueTwice(marksSubject)

C22_Step ==
  /\ IsPrefix(payloadSubject, payloadSubject')
  /\ IsPrefix(marksSubject, marksSubject')

\* C22: after any sequence of sendOnUpdate, sendOnTtsMark and completed
\* loadSdk operations the published payload and mark suggestion lists hold
\* every value sent or imported so far, hold no value twice, and never lose a
\* value published earlier.
C22_SuggestionsComplete == [](C22_State) /\ [][C22_Step]_vars

\* C22 witness: a payload was sent twice and a mark was sent, the sample
\* directory was imported, and the lists hold sent and imported values.
C22_Witness ==
  /\ Imported
  /\ Cardinality({i \in 1..Len(sends) : sends[i].origin = "update"}) = 2
  /\ Cardinality(SentPayloads) = 1
  /\ csData.data # <<>> /\ csData.marks # <<>>
  /\ Len(payloadSubject) > 1

(***************************************************************************)
(* Properties of the operations refused on a remote target.                *)
(***************************************************************************)
NewSends == {sends'[i] : i \in (Len(sends) + 1)..Len(sends')}
NewLoads == {loads'[i] : i \in (Len(loads) + 1)..Len(loads')}
RefusedHeader == Rejection("injectHeaderDom", UnavailableOnRemote)
RefusedLoad == Rejection("loadSdk", UnavailableOnRemote)

\* A step taken while the session is marked remote.  A rejection that comes
\* with no change to the transport calls is the rejection of an operation
\* issued in that step.
C23_Step ==
  isRemoteTarget =>
    /\ styles' = styles
    /\ \A send \in NewSends : send.origin \notin {"header", "load"}
    /\ \A load \in NewLoads :
         /\ load.pc = "failed" /\ ~load.interval
         /\ RefusedLoad \in errors'
         /\ sends' = sends
    /\ sends' = sends =>
         \A e \in errors' \ errors :
           e.op \in {"injectHeaderDom", "loadSdk"} =>
             e.error = UnavailableOnRemote /\ slot' = slot /\ delivered' = delivered

\* C23: in a session marked remote injectHeaderDom and loadSdk each fail with
\* 'Function unavailable on remote targets' before doing anything else: no
\* style is inserted, no message is sent to the page and no poll timer is
\* started.
C23_RefusedOnRemote == [][C23_Step]_vars

\* C23 witness: a remote session with a window in which both operations were
\* asked for and refused.
C23_Witness ==
  /\ isRemoteTarget /\ currentWindow = RemoteTab
  /\ RefusedHeader \in errors /\ RefusedLoad \in errors
  /\ styles = 0
  /\ loads # <<>> /\ \A l \in 1..Len(loads) : loads[l].pc = "failed"
  /\ \A i \in 1..Len(sends) : sends[i].origin \notin {"header", "load"}

(***************************************************************************)
(* Properties of the poll of loadSdk.                                      *)
(***************************************************************************)
Polling(l) == l <= Len(loads) /\ loads[l].interval
CanStillFire == TicksFired < MaxTicks
Published(l) == l <= Len(loads) /\ ~loads[l].interval /\ loads[l].published > 0

\* While the content script has no ready flag no tick clears a timer or
\* publishes anything.
C24_NeverWithoutReady ==
  ~csReady =>
    \A l \in 1..Len(loads) :
      /\ loads[l].pc = "polling" => loads[l].interval
      /\ loads[l].fetched = 0 /\ loads[l].published = 0

FromConsole == SelectSeq(delivered[MainFrame], LAMBDA d : d.by = 0)

\* C25: a call of a method of window.interactiveCanvasDebug triggers the page
\* callback of the same name with the argument given, and no other callback.
C25_DebugSameCallback ==
  /\ Len(FromConsole) = Len(debugCalls)
  /\ \A k \in 1..Len(debugCalls) :
       /\ FromConsole[k].cb = debugCalls[k].method
       /\ FromConsole[k].arg = debugCalls[k].arg

(***************************************************************************)
(* Properties of the shared storage slot.                                  *)
(***************************************************************************)
\* C26: the message event a page receives from the script a local send
\* injected carries the type, data and requestId that this send wrote to the
\* storage slot, also when another send writes the slot in between; no
\* message is lost and none is delivered in place of another.
C26_OwnMessageDelivered ==
  \A f \in Frames : \A i \in 1..Len(delivered[f]) :
    LET d == delivered[f][i] IN
    (d.by \in 1..Len(sends) /\ sends[d.by].transport = "local") =>
      /\ d.requestId = d.by
      /\ d.type = sends[d.by].type
      /\ d.data = sends[d.by].data

(***************************************************************************)
(* Properties of fetchHistory on a local target.                           *)
(***************************************************************************)
C27_Step ==
  (fetches' > fetches /\ ~isRemoteTarget /\ CanAccessWindow) =>
    /\ historySubject'.defined
    /\ calls = <<>> => historySubject'.entries = <<>>

\* C27: on a local target fetchHistory always publishes a sequence of history
\* entries on historySubject, the empty sequence when the page has made no
\* outbound call yet or has no host API, never undefined or null.
C27_AlwaysASequence == [][C27_Step]_vars

(***************************************************************************)
(* Properties of the transport of a remote session.                        *)
(***************************************************************************)
C28_Step ==
  isRemoteTarget => \A send \in NewSends : send.transport = "remote"

\* C28: in a session marked remote every message the bridge sends goes over
\* the remote transport; no operation, the preference sync of init included,
\* uses the storage slot and an injected script.
C28_RemoteSessionRemoteTransport ==
  /\ [][C28_Step]_vars
  /\ [](isRemoteTarget /\ initpc = "done" => slot = NoMessage)

(***************************************************************************)
(* Properties of reads made while init is running.                         *)
(***************************************************************************)
TransportSelected == initpc \notin {"query1", "query2"}
SelectedTransport == IF isRemoteTarget THEN "remote" ELSE "local"

\* C29: nothing reads isRemoteTarget or the selected tab before init has
\* selected the transport: a command issued, or a copy of isRemoteTarget
\* taken, while the tab queries are pending uses the transport init ends up
\* selecting.
C29_NoEarlyRead ==
  TransportSelected =>
    /\ tabIsRemoteTarget.taken => tabIsRemoteTarget.value = isRemoteTarget
    /\ \A i \in 1..Len(sends) :
         sends[i].origin \in UserOrigins => sends[i].transport = SelectedTransport

(***************************************************************************)
(* Properties of repeated and overlapping runs of processSdk.              *)
(***************************************************************************)
\* A directory every step of the traversal gets through.
Traversable(d) ==
  /\ ResolveHeader(d).threw = ""
  /\ d.customDir
  /\ processSdkGlobal(d).threw = ""
  /\ processSdkCustom(d).threw = ""

\* What one complete traversal of d leaves in interactiveCanvasData.
OneTraversal(d) ==
  PushResult(PushResult(PushResult([data |-> <<>>, marks |-> <<>>],
                                   processSdkGlobal(d)),
                        processSdkCustom(d)),
             processSdkWebhooks(d))

\* C30: after any sequence of Ext-ProcessSdk commands, sequential or
\* overlapping, whenever interactiveCanvasReady is true interactiveCanvasData
\* is the result of exactly one complete traversal of one selected directory.
C30_OneTraversalWhenReady ==
  interactiveCanvasReady =>
    \E r \in 1..Len(runs) :
      /\ runs[r].pc = "done"
      /\ Traversable(DirNamed(runs[r].dir))
      /\ LET one == OneTraversal(DirNamed(runs[r].dir)) IN
         /\ interactiveCanvasData.data = one.data
         /\ interactiveCanvasData.marks = one.marks

====
